---- MODULE Spec2Model ----
(***************************************************************************)
(* A model of MINIXCompat, the compatibility environment that runs M68000  *)
(* MINIX 1.5 binaries on a POSIX host.  The model covers the run loop and  *)
(* its execution state machine, the TRAP #0 system call dispatcher with    *)
(* its message codec, the executable loader, the file descriptor table     *)
(* and the process table.                                                  *)
(*                                                                         *)
(* The guest program and the host operating system are the environment:    *)
(* the guest prepares registers and a message in guest RAM and traps, the  *)
(* host decides the outcome of every host call.  An assertion of the C     *)
(* code that fails aborts the process (pc = "aborted").                    *)
(***************************************************************************)
EXTENDS Integers, Naturals, Sequences, FiniteSets, TLC

VARIABLES
    pc,                          \* where main() is: "loop", "quantum", "exited", "aborted"
    MINIXCompat_State,           \* MINIXCompat.c:31
    MINIXCompat_exit_status,     \* MINIXCompat.c:32
    state_change,                \* last (current, new) pair handed to MINIXCompat_Execution_ChangeState
    MINIXCompat_RAM,             \* guest RAM, the regions the model tracks
    reg,                         \* emulated CPU registers D0, D1, A0
    minix_current_break,         \* static of MINIXCompat_SysCall_brk
    MINIXCompat_fd_table,        \* MINIXCompat_Filesystem.c:108
    host_fds,                    \* host descriptors open in this process
    host_faults,                 \* host calls that failed though they could have succeeded
    MINIXCompat_ProcessTable,    \* MINIXCompat_Processes.c:62
    MINIXCompat_ProcessTable_Size,
    minix_self_pid,
    minix_self_ppid,
    minix_next_pid,
    minix_signal_handlers,       \* MINIXCompat_Processes.c:79
    host_signal_handlers,        \* the host's disposition of each host signal
    minix_current_signal,        \* MINIXCompat_Processes.c:322, "none" for 0
    calc,                        \* the function a run applies to an input, and its result
    host,                        \* host process state: own pid, parent pid, live and
                                 \* exited children, the next process ID the host hands out
    last,                        \* the last trap handled and what it replied
    ncalls                       \* number of traps handled so far

vars == <<pc, MINIXCompat_State, MINIXCompat_exit_status, state_change,
          MINIXCompat_RAM, reg, minix_current_break, MINIXCompat_fd_table,
          host_fds, host_faults, MINIXCompat_ProcessTable, MINIXCompat_ProcessTable_Size,
          minix_self_pid, minix_self_ppid, minix_next_pid, minix_signal_handlers,
          host_signal_handlers, minix_current_signal, calc, host, last, ncalls>>

execVars == <<MINIXCompat_State, MINIXCompat_exit_status, state_change>>
fdVars   == <<MINIXCompat_fd_table, host_fds, host_faults>>
\* Every variable but calc.
progVars == <<pc, MINIXCompat_State, MINIXCompat_exit_status, state_change,
              MINIXCompat_RAM, reg, minix_current_break, MINIXCompat_fd_table,
              host_fds, host_faults, MINIXCompat_ProcessTable, MINIXCompat_ProcessTable_Size,
              minix_self_pid, minix_self_ppid, minix_next_pid, minix_signal_handlers,
              host_signal_handlers, minix_current_signal, host, last, ncalls>>
sigVars  == <<minix_signal_handlers, host_signal_handlers, minix_current_signal>>
procVars == <<MINIXCompat_ProcessTable, MINIXCompat_ProcessTable_Size,
              minix_self_pid, minix_self_ppid, minix_next_pid, sigVars, calc, host>>

----------------------------------------------------------------------------
(* Bounds of the model.                                                    *)

\* Traps the guest issues in one run.
MaxCalls == 3

\* Host calls that fail in one run though they could have succeeded (a
\* descriptor limit reached, an I/O error, a file removed by another process).
MaxHostFaults == 1

----------------------------------------------------------------------------
(* Fixed-width integers.                                                   *)

U16(v) == v % 65536
S16(v) == IF U16(v) >= 32768 THEN U16(v) - 65536 ELSE U16(v)

\* Big-endian bytes of a 16-bit value, as they lie in guest RAM.
BE16(v) == << (U16(v) \div 256) % 256, U16(v) % 256 >>

\* A 32-bit unsigned value is the pair of its 16-bit halves <<high, low>>, so
\* that the arithmetic keeps the width of uint32_t.
Long(n)        == << (n \div 65536) % 65536, n % 65536 >>     \* of a natural below 2^31
LongOfInt16(v) == IF v < 0 THEN << 65535, v + 65536 >> ELSE << 0, v >>   \* (uint32_t)(int16_t)v
Long_Max       == << 65535, 65535 >>                           \* 0xFFFFFFFF
Long_Add(a, b) ==
    LET low == a[2] + b[2]
    IN  << (a[1] + b[1] + (low \div 65536)) % 65536, low % 65536 >>
Long_Less(a, b)   == a[1] < b[1] \/ (a[1] = b[1] /\ a[2] < b[2])
Long_LessEq(a, b) == a = b \/ Long_Less(a, b)
Long_BE(a)        == BE16(a[1]) \o BE16(a[2])
Long_LE(a)        == << a[2] % 256, a[2] \div 256, a[1] % 256, a[1] \div 256 >>

\* Big-endian bytes of a natural below 2^31.
BE32(v) == Long_BE(Long(v))

Zeros(n) == [i \in 1..n |-> 0]

----------------------------------------------------------------------------
(* Errors.  Host errno numbers are those of the host's <errno.h>.          *)

\* Host errno numbers (Linux).
EPERM   == 1
ENOENT  == 2
EINTR   == 4
EIO     == 5
ENOEXEC == 8
EBADF   == 9
ECHILD  == 10
EAGAIN  == 11
ENOMEM  == 12
EACCES  == 13
EEXIST  == 17
EISDIR  == 21
EINVAL  == 22
ENFILE  == 23
EMFILE  == 24
ESPIPE  == 29
ENOTEMPTY == 39
ENODATA == 61

minix_EINTR   == 4
minix_EIO     == 5
minix_ENOEXEC == 8
minix_ENOMEM  == 12
minix_EINVAL  == 22
minix_ENFILE  == 23
minix_ERROR   == 99

\* The switch has a case for each of the host errors EPERM .. ENOTEMPTY, which
\* on this host are numbered 1 .. 39 like their MINIX counterparts.
MINIXCompat_Errors_MINIXErrorForHostError(host_error) ==
    CASE host_error = EINTR   -> minix_EINTR
      [] host_error = EIO     -> minix_EIO
      [] host_error = ENOEXEC -> minix_ENOEXEC
      [] host_error = ENOMEM  -> minix_ENOMEM
      [] host_error = EINVAL  -> minix_EINVAL
      [] host_error = ENFILE  -> minix_ENFILE
      [] host_error >= EPERM /\ host_error <= ENOTEMPTY
            /\ host_error \notin {EINTR, EIO, ENOEXEC, ENOMEM, EINVAL, ENFILE} -> host_error
      [] OTHER                -> minix_ERROR

----------------------------------------------------------------------------
(* Address space.                                                          *)

MINIXCompat_RAM_Size         == 16777216    \* 16 * 1024 * 1024
MINIXCompat_Executable_Base  == 4096        \* 0x00001000
MINIXCompat_Executable_Limit == 16646144    \* 0x00fe0000
MINIXCompat_Stack_Base       == 16711680    \* 0x00ff0000

\* Guest addresses the modelled guest uses for its syscall arguments.
MsgAddr  == MINIXCompat_Executable_Base + 4096    \* the message
PathAddr == MsgAddr + 256                         \* a path string
SnapAddr == MsgAddr + 512                         \* the stack snapshot handed to exece
BufAddr  == MsgAddr + 1024                        \* an I/O buffer
BadAddr  == MINIXCompat_RAM_Size - 16             \* a message here runs past the end of RAM

\* The assertions of MINIXCompat_RAM_Copy_Block_From_Host / _To_Host.
RAM_Block_InBounds(m68k_address, size) ==
    /\ Long_Less(m68k_address, Long(MINIXCompat_RAM_Size))
    /\ Long_LessEq(Long_Add(size, m68k_address), Long(MINIXCompat_RAM_Size))

----------------------------------------------------------------------------
(* Messages.  A message is the sequence of its 26 bytes.  In guest RAM the  *)
(* fields are big-endian; a handler swaps the host copy to host order      *)
(* (little-endian), reads and writes fields there, and swaps the reply     *)
(* back before the dispatcher copies it to guest RAM.                      *)

\* sizeof(minix_message_t): two int16 header fields and the largest payload (mess3, 22 bytes).
minix_message_size == 26

\* Byte offsets of the fields in the packed struct.
off_m_source == 0
off_m_type   == 2
off_i1       == 4     \* m1_i1, m2_i1, m3_i1, m6_i1
off_i2       == 6     \* m1_i2, m2_i2, m3_i2, m6_i2
off_i3       == 8     \* m1_i3, m2_i3, m6_i3
off_m3_p1    == 8
off_p1       == 10    \* m1_p1, m2_l1, m6_l1
off_p2       == 14    \* m1_p2, m2_l2, m6_f1
off_p3       == 18    \* m1_p3, m2_p1

Get16(m, off) == m[off + 1] * 256 + m[off + 2]
Get32(m, off) == ((m[off + 1] * 256 + m[off + 2]) * 256 + m[off + 3]) * 256 + m[off + 4]

Put(m, off, bytes) ==
    [i \in 1..Len(m) |->
        IF i > off /\ i <= off + Len(bytes) THEN bytes[i - off] ELSE m[i]]
Put16(m, off, v) == Put(m, off, BE16(v))
Put32(m, off, v) == Put(m, off, BE32(v))

\* A big-endian longword as a 32-bit value, and back.
GetLong(m, off)    == << m[off + 1] * 256 + m[off + 2], m[off + 3] * 256 + m[off + 4] >>
PutLong(m, off, a) == Put(m, off, Long_BE(a))

\* A field of the host copy, in host byte order.
HostGet16(m, off) == m[off + 1] + m[off + 2] * 256
HostGetLong(m, off) == << m[off + 3] + m[off + 4] * 256, m[off + 1] + m[off + 2] * 256 >>
HostPut16(m, off, v) == Put(m, off, << U16(v) % 256, (U16(v) \div 256) % 256 >>)
HostPutLong(m, off, a) == Put(m, off, Long_LE(a))

\* HTONS / HTONL of the field at off.
HTONS(m, off) == Put(m, off, << m[off + 2], m[off + 1] >>)
HTONL(m, off) == Put(m, off, << m[off + 4], m[off + 3], m[off + 2], m[off + 1] >>)

MINIXCompat_Message_Swap_header(m) == HTONS(HTONS(m, off_m_source), off_m_type)
MINIXCompat_Message_Swap_mess1(m) ==
    HTONL(HTONL(HTONL(HTONS(HTONS(HTONS(MINIXCompat_Message_Swap_header(m),
        off_i1), off_i2), off_i3), off_p1), off_p2), off_p3)
MINIXCompat_Message_Swap_mess2(m) ==
    HTONL(HTONL(HTONL(HTONS(HTONS(HTONS(MINIXCompat_Message_Swap_header(m),
        off_i1), off_i2), off_i3), off_p1), off_p2), off_p3)
MINIXCompat_Message_Swap_mess3(m) ==
    HTONL(HTONS(HTONS(MINIXCompat_Message_Swap_header(m), off_i1), off_i2), off_m3_p1)
MINIXCompat_Message_Swap_mess6(m) ==
    HTONL(HTONL(HTONS(HTONS(HTONS(MINIXCompat_Message_Swap_header(m),
        off_i1), off_i2), off_i3), off_p1), off_p2)

\* memset(msg, 0, sizeof(minix_message_t))
MINIXCompat_Message_Clear == Zeros(minix_message_size)

\* Messages as the guest library builds them; pointers and longs are 32-bit values.
Mess1(type, i1, i2, i3, p1, p2, p3) ==
    PutLong(PutLong(PutLong(Put16(Put16(Put16(Put16(Zeros(minix_message_size),
        off_m_type, type), off_i1, i1), off_i2, i2), off_i3, i3),
        off_p1, p1), off_p2, p2), off_p3, p3)
Mess2(type, i1, i2, i3, l1, l2, p1) == Mess1(type, i1, i2, i3, l1, l2, p1)
Mess3(type, i1, i2, p1) ==
    PutLong(Put16(Put16(Put16(Zeros(minix_message_size),
        off_m_type, type), off_i1, i1), off_i2, i2), off_m3_p1, p1)

----------------------------------------------------------------------------
(* System call numbers and the dispatch table.                             *)

minix_syscall_exit   == 1
minix_syscall_fork   == 2
minix_syscall_read   == 3
minix_syscall_write  == 4
minix_syscall_open   == 5
minix_syscall_close  == 6
minix_syscall_wait   == 7
minix_syscall_creat  == 8
minix_syscall_unlink == 10
minix_syscall_time   == 13
minix_syscall_break  == 17
minix_syscall_stat   == 18
minix_syscall_lseek  == 19
minix_syscall_getpid == 20
minix_syscall_getuid == 24
minix_syscall_fstat  == 28
minix_syscall_access == 33
minix_syscall_nice   == 34
minix_syscall_kill   == 37
minix_syscall_getgid == 47
minix_syscall_sig    == 48
minix_syscall_exece  == 59
minix_syscall_unused69 == 69

\* The call numbers whose slot of minix_syscall_table holds a handler.
minix_syscall_table ==
    { minix_syscall_exit, minix_syscall_fork, minix_syscall_read, minix_syscall_write,
      minix_syscall_open, minix_syscall_close, minix_syscall_wait, minix_syscall_creat,
      minix_syscall_unlink, minix_syscall_time, minix_syscall_break, minix_syscall_stat,
      minix_syscall_lseek, minix_syscall_getpid, minix_syscall_getuid, minix_syscall_fstat,
      minix_syscall_access, minix_syscall_kill, minix_syscall_getgid, minix_syscall_sig,
      minix_syscall_exece }

minix_syscall_func_send    == 1
minix_syscall_func_receive == 2
minix_syscall_func_both    == 3

minix_task_mm == 0
minix_task_fs == 1

minix_syscall_result_failure       == "failure"
minix_syscall_result_success_empty == "success_empty"
minix_syscall_result_success       == "success"

\* htonl() on the little-endian hosts the emulator is built for.
htonl(a) ==
    << (a[2] % 256) * 256 + a[2] \div 256, (a[1] % 256) * 256 + a[1] \div 256 >>

\* A trap callback that clears D0 whatever the dispatcher returned.
Trap_D0_AlwaysZero(syscall_result, new_D0_l) == Long(0)

\* What MINIXCompat_CPU_Trap_Callback stores in D0 for a dispatcher result.
Trap_D0(syscall_result, new_D0_l) ==
    CASE syscall_result = minix_syscall_result_success       -> htonl(new_D0_l)
      [] syscall_result = minix_syscall_result_success_empty -> Long(0)
      [] syscall_result = minix_syscall_result_failure       -> Long_Max

----------------------------------------------------------------------------
(* Strings and the host file system.  A string is the sequence of its      *)
(* bytes; a path in guest RAM carries its terminating NUL.                 *)

SetMin(S) == CHOOSE x \in S : \A y \in S : x <= y

\* The C string that starts a block of bytes: the bytes before the first NUL.
CString(bytes) ==
    LET nul == { i \in 1..Len(bytes) : bytes[i] = 0 }
    IN  IF nul = {} THEN bytes ELSE SubSeq(bytes, 1, SetMin(nul) - 1)

\* First size bytes of a region, zero-filled past its end (RAM is calloc'ed).
Block(region, size) ==
    [i \in 1..size |-> IF i <= Len(region) THEN region[i] ELSE 0]

\* MINIXCOMPAT_DIR of the modelled run: "/m".  MINIXCOMPAT_PWD is "/".
MINIXCOMPAT_DIR      == <<47, 109>>
MINIXCOMPAT_PWD_Host == MINIXCOMPAT_DIR \o <<47>>

\* The mutation of the conversion that leaves out the "/" after the base.
CopyHostPathForPath_NoSlash(DIR, PWD_Host, path) ==
    LET path_is_absolute == Len(path) > 0 /\ path[1] = 47
    IN  IF path_is_absolute THEN DIR \o path ELSE PWD_Host \o path

\* The conversion for any root DIR and any host working directory PWD_Host:
\* out_path is calloc'ed, base is appended, then "/" for a path that is not
\* absolute, then path.
Filesystem_CopyHostPathForPath(DIR, PWD_Host, path) ==
    LET path_is_absolute == Len(path) > 0 /\ path[1] = 47
        base == IF path_is_absolute THEN DIR ELSE PWD_Host
    IN  IF path_is_absolute
        THEN base \o path
        ELSE base \o <<47>> \o path

MINIXCompat_Filesystem_CopyHostPathForPath(path) ==
    Filesystem_CopyHostPathForPath(MINIXCOMPAT_DIR, MINIXCOMPAT_PWD_Host, path)

\* MINIX a.out header, 8 big-endian longwords, then the rest of the file.
ExecFile(a_magic, a_flags, a_text, a_data, a_bss, a_no_entry, a_total, a_syms, rest) ==
    BE32(a_magic) \o BE32(a_flags) \o BE32(a_text) \o BE32(a_data) \o
    BE32(a_bss) \o BE32(a_no_entry) \o BE32(a_total) \o BE32(a_syms) \o rest

minix_exec_magic_combined == 68158209    \* 0x04100301
minix_exec_magic_separate == 69206785    \* 0x04200301
minix_exec_flags          == 32          \* 0x00000020
minix_exec_no_entry       == 0
MINIX_CLICK_SIZE          == 256
sizeof_minix_exec         == 32

\* Text and data of the modelled tools: the longwords at 4 and 8 are relocatable.
ToolCode(tag) == <<78, 113, tag, 1,  0, 0, 0, 16,  0, 0, 0, 32,  78, 117, 0, tag>>

\* Relocation streams: longword at 4, then the one 4 bytes on, then done.
Reloc_OK        == <<0, 0, 0, 4,  4,  0>>
Reloc_Skip      == <<0, 0, 0, 4,  1,  0>>     \* 0x01: bump by 254, relocate nothing
Reloc_None      == <<0, 0, 0, 0>>
Reloc_Odd       == <<0, 0, 0, 4,  3>>         \* odd byte other than 1
Reloc_Truncated == <<0, 0, 0, 4,  4>>         \* stream ends without the 0 byte

Tool(tag, reloc) ==
    ExecFile(minix_exec_magic_combined, minix_exec_flags, 8, 8, 0,
             minix_exec_no_entry, 256, 0, ToolCode(tag) \o reloc)

\* What the host has at a host path: kind "none" (stat fails with ENOENT),
\* "file" or "dir"; readable says whether fopen(path, "r") succeeds.
HostNode(host_path) ==
    LET name == IF Len(host_path) = Len(MINIXCOMPAT_DIR) + 2
                   /\ SubSeq(host_path, 1, Len(MINIXCOMPAT_DIR) + 1) = MINIXCOMPAT_DIR \o <<47>>
                THEN host_path[Len(host_path)] ELSE 0
    IN  CASE name = 116 -> [kind |-> "file", readable |-> TRUE,  bytes |-> Tool(1, Reloc_OK)]         \* /t
          [] name = 110 -> [kind |-> "file", readable |-> TRUE,  bytes |-> Tool(2, <<>>)]             \* /n
          [] name = 107 -> [kind |-> "file", readable |-> TRUE,  bytes |-> Tool(3, Reloc_Skip)]       \* /k
          [] name = 122 -> [kind |-> "file", readable |-> TRUE,  bytes |-> Tool(4, Reloc_None)]       \* /z
          [] name = 111 -> [kind |-> "file", readable |-> TRUE,  bytes |-> Tool(5, Reloc_Odd)]        \* /o
          [] name = 99  -> [kind |-> "file", readable |-> TRUE,  bytes |-> Tool(6, Reloc_Truncated)]  \* /c
          [] name = 98  -> [kind |-> "file", readable |-> TRUE,
                            bytes |-> ExecFile(0, minix_exec_flags, 8, 8, 0, 0, 256, 0, ToolCode(7))] \* /b
          [] name = 104 -> [kind |-> "file", readable |-> TRUE,  bytes |-> <<4, 16, 3, 1>>]           \* /h
          [] name = 101 -> [kind |-> "file", readable |-> TRUE,
                            bytes |-> ExecFile(minix_exec_magic_combined, minix_exec_flags,
                                               0, 0, 0, 0, 256, 0, <<>>)]                             \* /e
          [] name = 117 -> [kind |-> "file", readable |-> FALSE, bytes |-> Tool(8, Reloc_OK)]         \* /u
          [] name = 102 -> [kind |-> "file", readable |-> TRUE,  bytes |-> <<104, 105>>]              \* /f
          [] name = 100 -> [kind |-> "dir",  readable |-> TRUE,  bytes |-> <<>>]                      \* /d
          [] OTHER      -> [kind |-> "none", readable |-> FALSE, bytes |-> <<>>]

----------------------------------------------------------------------------
(* The executable loader.  A file is the sequence of its bytes; the        *)
(* operators return the error code and the host buffer built so far.       *)

\* The header fields of the modelled files are far below 2^31.
MINIX_CLICK_ROUND(s) == (s + MINIX_CLICK_SIZE - 1) \div 256

\* The header in host byte order after validation, or the error.
MINIXExecutableLoadHeader(file) ==
    IF Len(file) < sizeof_minix_exec
    THEN [err |-> -MINIXCompat_Errors_MINIXErrorForHostError(EIO)]
    ELSE LET a_magic    == Get32(file, 0)
             a_flags    == Get32(file, 4)
             a_text     == Get32(file, 8)
             a_data     == Get32(file, 12)
             a_no_entry == Get32(file, 20)
             a_total    == Get32(file, 24)
             a_syms     == Get32(file, 28)
         IN  IF a_magic # minix_exec_magic_combined /\ a_magic # minix_exec_magic_separate
             THEN [err |-> -ENOEXEC]
             ELSE IF a_flags # minix_exec_flags THEN [err |-> -ENOEXEC]
             ELSE IF a_no_entry # minix_exec_no_entry THEN [err |-> -ENOEXEC]
             ELSE IF a_total = 0 THEN [err |-> -ENOEXEC]
             ELSE IF a_magic = minix_exec_magic_combined
                  THEN [err |-> 0, a_text |-> 0, a_data |-> a_data + a_text,
                        a_total |-> a_total, a_syms |-> a_syms]
                  ELSE [err |-> 0, a_text |-> a_text, a_data |-> a_data,
                        a_total |-> a_total, a_syms |-> a_syms]

\* A relocation that adds the base to the longword read in host byte order.
RelocateLongAtOffset_HostOrder(buf, relocation_base, relocation_offset) ==
    IF relocation_offset + 4 <= Len(buf)
    THEN Put(buf, relocation_offset,
             Long_LE(Long_Add(HostGetLong(buf, relocation_offset), Long(relocation_base))))
    ELSE buf

\* The longword at relocation_offset made relative to relocation_base.  An
\* offset outside the buffer touches host memory that is not the image.
MINIXExecutableRelocateLongAtOffset(buf, relocation_base, relocation_offset) ==
    IF relocation_offset + 4 <= Len(buf)
    THEN PutLong(buf, relocation_offset,
                 Long_Add(GetLong(buf, relocation_offset), Long(relocation_base)))
    ELSE buf

\* The do-while loop of MINIXExecutableRelocate: pos is the index of the next
\* byte of the file to read.
RECURSIVE RelocateRest(_, _, _, _)
RelocateRest(file, pos, relocation_offset, buf) ==
    IF pos > Len(file) THEN [err |-> -EIO, buf |-> buf]
    ELSE LET b == file[pos] IN
         IF b = 0 THEN [err |-> 0, buf |-> buf]
         ELSE IF b = 1
              THEN RelocateRest(file, pos + 1, relocation_offset + 254, buf)
         ELSE IF b % 2 = 0
              THEN RelocateRest(file, pos + 1, relocation_offset + b,
                       MINIXExecutableRelocateLongAtOffset(buf, MINIXCompat_Executable_Base,
                                                           relocation_offset + b))
         ELSE [err |-> -ENOEXEC, buf |-> buf]

\* pos is the index of the first byte of relocation information.
MINIXExecutableRelocate(file, pos, buf) ==
    IF pos + 3 > Len(file) THEN [err |-> 0, buf |-> buf]
    ELSE LET relocation_offset == Get32(file, pos - 1) IN
         IF relocation_offset = 0 THEN [err |-> 0, buf |-> buf]
         ELSE RelocateRest(file, pos + 4, relocation_offset,
                  MINIXExecutableRelocateLongAtOffset(buf, MINIXCompat_Executable_Base,
                                                      relocation_offset))

\* Bytes of the file placed in the buffer at base; what does not fit the
\* buffer lands outside the image.
ReadInto(buf, base, file, pos, count) ==
    [i \in 1..Len(buf) |->
        IF i > base /\ i <= base + count THEN file[pos + (i - base) - 1] ELSE buf[i]]

\* MINIXCompat_Executable_Load after the relocation: its error is negated.
Load_Relocated(r) ==
    IF r.err # 0 THEN [err |-> -r.err, buf |-> r.buf] ELSE [err |-> 0, buf |-> r.buf]

\* ... reading a_data bytes at data_base, skipping the symbols, relocating.
Load_Data(file, h, buf, data_base, data_pos) ==
    IF ~(h.a_data > 0 /\ data_pos + h.a_data - 1 <= Len(file))
    THEN [err |-> -MINIXCompat_Errors_MINIXErrorForHostError(ENODATA), buf |-> buf]
    ELSE Load_Relocated(
             MINIXExecutableRelocate(file, data_pos + h.a_data + h.a_syms,
                                     ReadInto(buf, data_base, file, data_pos, h.a_data)))

\* ... reading a_text bytes at the start of the zeroed buffer, if there is text.
Load_Text(file, h, text_clicks, buf) ==
    IF text_clicks = 0
    THEN Load_Data(file, h, buf, 0, sizeof_minix_exec + 1)
    ELSE IF sizeof_minix_exec + h.a_text > Len(file)
    THEN [err |-> -MINIXCompat_Errors_MINIXErrorForHostError(ENOEXEC), buf |-> buf]
    ELSE Load_Data(file, h, ReadInto(buf, 0, file, sizeof_minix_exec + 1, h.a_text),
                   text_clicks * MINIX_CLICK_SIZE, sizeof_minix_exec + 1 + h.a_text)

\* ... with the header h loaded: the buffer is a_total rounded up to clicks.
Load_Header(file, h) ==
    IF h.err # 0 THEN [err |-> h.err, buf |-> <<>>]
    ELSE Load_Text(file, h, MINIX_CLICK_ROUND(h.a_text),
                   Zeros(MINIX_CLICK_ROUND(h.a_total) * MINIX_CLICK_SIZE))

MINIXCompat_Executable_Load(file) == Load_Header(file, MINIXExecutableLoadHeader(file))

\* MINIXCompat_Processes_LoadTool returns an int16_t and copies the image to
\* MINIXCompat_Executable_Base; buf is that image when err is 0.
LoadTool_Loaded(l) ==
    IF l.err # 0 THEN [err |-> S16(l.err), buf |-> l.buf] ELSE [err |-> 0, buf |-> l.buf]

LoadTool_Stat(node) ==
    IF node.kind = "none"
    THEN [err |-> -MINIXCompat_Errors_MINIXErrorForHostError(ENOENT), buf |-> <<>>]
    ELSE IF ~node.readable
    THEN [err |-> -MINIXCompat_Errors_MINIXErrorForHostError(EIO), buf |-> <<>>]
    ELSE LoadTool_Loaded(MINIXCompat_Executable_Load(node.bytes))

MINIXCompat_Processes_LoadTool(executable_path) ==
    LoadTool_Stat(HostNode(MINIXCompat_Filesystem_CopyHostPathForPath(executable_path)))

\* The stack snapshot with its argv and envp offsets rebased on Stack_Base.
\* The snapshot holds argc, the argv offsets, 0, the envp offsets, 0, strings.
StackWord(stack, n) == GetLong(stack, 4 * n)
FirstZeroWord(stack, from) ==
    SetMin({ n \in from..(Len(stack) \div 4 - 1) : StackWord(stack, n) = Long(0) })
RelocateStack(stack) ==
    LET argv_end == FirstZeroWord(stack, 1)
        envp_end == FirstZeroWord(stack, argv_end + 1)
        Rebased(n) == (n >= 1 /\ n < argv_end) \/ (n > argv_end /\ n < envp_end)
    IN  [i \in 1..Len(stack) |->
            LET n == (i - 1) \div 4 IN
            IF Rebased(n)
            THEN Long_BE(Long_Add(StackWord(stack, n),
                                  Long(MINIXCompat_Stack_Base)))[((i - 1) % 4) + 1]
            ELSE stack[i]]

----------------------------------------------------------------------------
(* Initial state: main() has validated argc and initialised the file       *)
(* system, CPU, process and system call subsystems.                        *)

MINIXCompat_fd_count == 20

\* What MINIXCompat_fd_ClearDescriptorEntry leaves in a slot.
ClearedEntry ==
    [host_fd |-> -1, minix_fd |-> -1, f_type |-> "f_unchecked",
     dir_entries |-> <<>>, dir_count |-> -1, dir_offset |-> -1]

MINIXCompat_Filesystem_Initialize ==
    [i \in 0..(MINIXCompat_fd_count - 1) |->
        IF i <= 2
        THEN [ClearedEntry EXCEPT !.host_fd = i, !.minix_fd = i, !.f_type = "f_file"]
        ELSE ClearedEntry]

\* Host process IDs of the emulator process and of the process that started it.
HostSelf   == [pid |-> 100, ppid |-> 50]

MINIXCompat_Processes_Initialize ==
    [i \in 0..31 |->
        CASE i = 0 -> [minix_pid |-> 7, host_pid |-> HostSelf.pid]
          [] i = 1 -> [minix_pid |-> 6, host_pid |-> HostSelf.ppid]
          [] OTHER -> [minix_pid |-> 0, host_pid |-> 0]]

\* MINIXCompat_Processes_HostSignalForMINIXSignal, by MINIX signal number.
MINIXCompat_Processes_HostSignalForMINIXSignal ==
    << "SIGHUP", "SIGINT", "SIGQUIT", "SIGILL", "SIGTRAP", "SIGABRT", "SIGEMT", "SIGFPE",
       "SIGKILL", "SIGUSR1", "SIGSEGV", "SIGUSR2", "SIGPIPE", "SIGALRM", "SIGTERM", "SIGXCPU" >>

HostSignals == { MINIXCompat_Processes_HostSignalForMINIXSignal[i] : i \in 1..16 }

\* No function has been applied.
NoCalc == [fn |-> "none", in |-> <<>>, out |-> <<>>]

NoTrap ==
    [op |-> "none", func |-> 0, arg |-> 0, result |-> "none", out |-> Long(0),
     reply |-> MINIXCompat_Message_Clear]

\* The program's own state when main() enters the run loop.
Constructed ==
    /\ pc = "loop"
    /\ MINIXCompat_State = "Started"
    /\ MINIXCompat_exit_status = 0
    /\ state_change = <<"none", "Started">>
    /\ MINIXCompat_RAM = [vectors |-> Zeros(8), exec |-> <<>>, stack |-> <<>>,
                          msg |-> Zeros(minix_message_size), path |-> <<>>,
                          snap |-> <<>>, buf |-> <<>>]
    /\ reg = [D0 |-> Long(0), D1 |-> Long(0), A0 |-> Long(0)]
    /\ minix_current_break = Long(0)
    /\ MINIXCompat_fd_table = MINIXCompat_Filesystem_Initialize
    /\ host_fds = {0, 1, 2}
    /\ host_faults = 0
    /\ MINIXCompat_ProcessTable = MINIXCompat_Processes_Initialize
    /\ MINIXCompat_ProcessTable_Size = 32
    /\ minix_self_pid = 0
    /\ minix_self_ppid = 0
    /\ minix_next_pid = 8
    /\ minix_signal_handlers = [sig \in 0..15 |-> Long(0)]
    /\ host_signal_handlers = [sig \in HostSignals |-> "SIG_DFL"]
    /\ minix_current_signal = "none"
    /\ host = [pid |-> HostSelf.pid, ppid |-> HostSelf.ppid, children |-> {},
               zombies |-> {}, fresh |-> HostSelf.pid + 1]
    /\ last = NoTrap
    /\ ncalls = 0

Init == Constructed /\ calc = NoCalc

----------------------------------------------------------------------------
(* The execution state machine and the run loop of main().                 *)

\* The assertion of MINIXCompat_Execution_ChangeState.
ChangeState_Legal(current, state) ==
    \/ current = "Started"  /\ state = "Ready"
    \/ current = "Ready"    /\ state = "Running"
    \/ current = "Running"  /\ state = "Ready"
    \/ current = "Running"  /\ state = "Finished"
    \/ current = "Finished" /\ state = "Finished"

\* MINIXCompat_Execution_ChangeState called where control continues at next_pc:
\* the attempted pair is recorded, a failed assertion aborts the process.
MINIXCompat_Execution_ChangeState(state, next_pc) ==
    /\ state_change' = <<MINIXCompat_State, state>>
    /\ IF ChangeState_Legal(MINIXCompat_State, state)
       THEN MINIXCompat_State' = state /\ pc' = next_pc
       ELSE MINIXCompat_State' = MINIXCompat_State /\ pc' = "aborted"

\* Host arguments of the modelled runs: argv[1] is the tool, a guest path.
StartupTools == { <<47, 116>>, <<47, 120>> }

round_up_32(x) == x + (4 - (x % 4))

\* MINIXCompat_Arguments_Initialize for argv = { tool }, no MINIX_ environment:
\* argc, pointer to the tool name, NULL, NULL, then the name, 4-byte aligned.
MINIXCompat_Arguments_Initialize(tool) ==
    BE32(1) \o BE32(MINIXCompat_Stack_Base + 16) \o BE32(0) \o BE32(0)
        \o Block(tool, round_up_32(Len(tool) + 1))

\* MINIXCompat_Processes_ExecuteWithHostParams with the tool loaded as l, and
\* what main() does with its result.
Main_Execute(tool, l) ==
    IF l.err # 0
    THEN /\ pc' = "exited"
         /\ MINIXCompat_exit_status' = 71
         /\ UNCHANGED <<MINIXCompat_State, state_change, MINIXCompat_RAM>>
    ELSE /\ MINIXCompat_RAM' = [MINIXCompat_RAM EXCEPT
                !.exec = l.buf, !.stack = MINIXCompat_Arguments_Initialize(tool)]
         /\ MINIXCompat_Execution_ChangeState("Ready", "loop")
         /\ UNCHANGED MINIXCompat_exit_status

\* case MINIXCompat_Execution_State_Started
Main_Started ==
    /\ pc = "loop"
    /\ MINIXCompat_State = "Started"
    /\ \E tool \in StartupTools : Main_Execute(tool, MINIXCompat_Processes_LoadTool(tool))
    /\ UNCHANGED <<reg, minix_current_break, fdVars, procVars, last, ncalls>>

\* case MINIXCompat_Execution_State_Ready: MINIXCompat_CPU_Reset, then Running.
Main_Ready ==
    /\ pc = "loop"
    /\ MINIXCompat_State = "Ready"
    /\ MINIXCompat_RAM' = [MINIXCompat_RAM EXCEPT
            !.vectors = BE32(MINIXCompat_Stack_Base) \o BE32(MINIXCompat_Executable_Base)]
    /\ MINIXCompat_Execution_ChangeState("Running", "loop")
    /\ UNCHANGED <<MINIXCompat_exit_status, reg, minix_current_break, fdVars, procVars,
                   last, ncalls>>

\* case MINIXCompat_Execution_State_Running: MINIXCompat_CPU_Run starts a quantum.
Main_Running ==
    /\ pc = "loop"
    /\ MINIXCompat_State = "Running"
    /\ pc' = "quantum"
    /\ UNCHANGED <<execVars, MINIXCompat_RAM, reg, minix_current_break, fdVars, procVars,
                   last, ncalls>>

\* MINIXCompat_Processes_HandlePendingSignals: the run loop inspects the
\* pending-signal slot and, if it is set, arranges for the guest handler to
\* run next; the slot is then empty again.
MINIXCompat_Processes_HandlePendingSignals(current_signal) == "none"

\* The mutation of the end of a quantum that handles the pending signals
\* whatever the state is.
Quantum_End_AnyState ==
    /\ pc = "quantum"
    /\ pc' = "loop"
    /\ minix_current_signal' =
           MINIXCompat_Processes_HandlePendingSignals(minix_current_signal)
    /\ UNCHANGED <<execVars, MINIXCompat_RAM, reg, minix_current_break, fdVars,
                   MINIXCompat_ProcessTable, MINIXCompat_ProcessTable_Size, minix_self_pid,
                   minix_self_ppid, minix_next_pid, minix_signal_handlers,
                   host_signal_handlers, calc, host, last, ncalls>>

\* m68k_execute returns: the quantum is used up, whatever the state is now.
\* If the state is still Running the pending signals are handled.
Quantum_End ==
    /\ pc = "quantum"
    /\ pc' = "loop"
    /\ minix_current_signal' =
           IF MINIXCompat_State = "Running"
           THEN MINIXCompat_Processes_HandlePendingSignals(minix_current_signal)
           ELSE minix_current_signal
    /\ UNCHANGED <<execVars, MINIXCompat_RAM, reg, minix_current_break, fdVars,
                   MINIXCompat_ProcessTable, MINIXCompat_ProcessTable_Size, minix_self_pid,
                   minix_self_ppid, minix_next_pid, minix_signal_handlers,
                   host_signal_handlers, calc, host, last, ncalls>>

\* The loop condition fails in state Finished: main returns the exit status.
Main_Finished ==
    /\ pc = "loop"
    /\ MINIXCompat_State = "Finished"
    /\ pc' = "exited"
    /\ UNCHANGED <<execVars, MINIXCompat_RAM, reg, minix_current_break, fdVars, procVars,
                   last, ncalls>>

----------------------------------------------------------------------------
(* The guest.  It runs inside a quantum; all the model sees of it is the   *)
(* registers and the guest RAM it has prepared when it executes TRAP #0.   *)
(* The CPU goes on executing the guest after a trap returns, for as long   *)
(* as the quantum lasts, whatever the execution state has become.          *)

Setup(func, src_dest, a0, msg, path, snap) ==
    [func |-> func, src_dest |-> src_dest, a0 |-> a0, msg |-> msg, path |-> path, snap |-> snap]

\* The guest executes TRAP #0 with one of setups prepared.
Guest_Trap(setups) ==
    /\ \E s \in setups :
        /\ reg' = [D0 |-> Long(s.func), D1 |-> Long(s.src_dest), A0 |-> Long(s.a0)]
        /\ MINIXCompat_RAM' = [MINIXCompat_RAM EXCEPT
                !.msg = s.msg, !.path = s.path, !.snap = s.snap]
    /\ pc' = "trap"
    /\ UNCHANGED <<execVars, minix_current_break, fdVars, procVars, last, ncalls>>

GuestPrepare(setups) ==
    /\ pc = "quantum"
    /\ ncalls < MaxCalls
    /\ Guest_Trap(setups)

\* The bytes of guest RAM a block copy to the host reads.
MINIXCompat_RAM_Copy_Block_To_Host(m68k_address, size) ==
    CASE m68k_address = Long(MsgAddr)  -> Block(MINIXCompat_RAM.msg, size)
      [] m68k_address = Long(PathAddr) -> Block(MINIXCompat_RAM.path, size)
      [] m68k_address = Long(SnapAddr) -> Block(MINIXCompat_RAM.snap, size)
      [] m68k_address = Long(BufAddr)  -> Block(MINIXCompat_RAM.buf, size)
      [] OTHER                   -> Zeros(size)

\* A region of guest RAM after a block has been copied over its start.
Overlay(region, block) ==
    [i \in 1..(IF Len(block) > Len(region) THEN Len(block) ELSE Len(region)) |->
        IF i <= Len(block) THEN block[i] ELSE region[i]]

----------------------------------------------------------------------------
(* MINIXCompat_CPU_Trap_Callback and MINIXCompat_System_Call.              *)

Trap_func     == reg.D0[2]      \* (uint16_t) D0_l
Trap_src_dest == reg.D1[2]      \* (uint16_t) D1_l
Trap_msg      == reg.A0

\* The host copy of the message, and the call number the dispatcher reads.
Trap_message  == MINIXCompat_RAM_Copy_Block_To_Host(Trap_msg, minix_message_size)
Trap_sc       == Get16(Trap_message, off_m_type)

\* The dispatcher got as far as looking up the call number.
Trap_ToServer ==
    /\ pc = "trap"
    /\ Trap_func \in {minix_syscall_func_send, minix_syscall_func_both}
    /\ RAM_Block_InBounds(Trap_msg, Long(minix_message_size))
    /\ Trap_src_dest \in {minix_task_mm, minix_task_fs}

\* The dispatcher calls the handler of system call sc.
Dispatched(sc) == Trap_ToServer /\ Trap_sc = sc

\* The handler returned: the dispatcher copies the message back for
\* send-and-receive, the trap callback sets D0.
Trap_Return(ram, message, result, out, op, arg) ==
    /\ MINIXCompat_RAM' =
            IF Trap_func = minix_syscall_func_both /\ Trap_msg = Long(MsgAddr)
            THEN [ram EXCEPT !.msg = message] ELSE ram
    /\ reg' = [reg EXCEPT !.D0 = Trap_D0(result, out)]
    /\ last' = [op |-> op, func |-> Trap_func, arg |-> arg, result |-> result,
                out |-> out, reply |-> message]
    /\ ncalls' = ncalls + 1

\* An assertion failed inside the trap: the process is gone, with the
\* effects it had on guest RAM until then.
Trap_Abort(ram, op, arg) ==
    /\ MINIXCompat_RAM' = ram
    /\ last' = [op |-> op, func |-> Trap_func, arg |-> arg, result |-> "abort",
                out |-> Long(0), reply |-> Trap_message]
    /\ ncalls' = ncalls + 1
    /\ UNCHANGED reg

\* assert((func >= minix_syscall_func_send) && (func <= minix_syscall_func_both))
Trap_BadFunc ==
    /\ pc = "trap"
    /\ Trap_func \notin {minix_syscall_func_send, minix_syscall_func_receive,
                         minix_syscall_func_both}
    /\ pc' = "aborted"
    /\ UNCHANGED <<execVars, MINIXCompat_RAM, reg, minix_current_break, fdVars, procVars,
                   last, ncalls>>

\* The assertions of MINIXCompat_RAM_Copy_Block_To_Host on the message address.
Trap_BadMessage ==
    /\ pc = "trap"
    /\ Trap_func \in {minix_syscall_func_send, minix_syscall_func_receive,
                      minix_syscall_func_both}
    /\ ~RAM_Block_InBounds(Trap_msg, Long(minix_message_size))
    /\ pc' = "aborted"
    /\ UNCHANGED <<execVars, MINIXCompat_RAM, reg, minix_current_break, fdVars, procVars,
                   last, ncalls>>

\* func is receive: not supported, failure.
Trap_Receive ==
    /\ pc = "trap"
    /\ Trap_func = minix_syscall_func_receive
    /\ RAM_Block_InBounds(Trap_msg, Long(minix_message_size))
    /\ reg' = [reg EXCEPT !.D0 = Trap_D0(minix_syscall_result_failure, Long(0))]
    /\ last' = [op |-> "receive", func |-> Trap_func, arg |-> 0,
                result |-> minix_syscall_result_failure, out |-> Long(0), reply |-> Trap_message]
    /\ ncalls' = ncalls + 1
    /\ pc' = "quantum"
    /\ UNCHANGED <<execVars, MINIXCompat_RAM, minix_current_break, fdVars, procVars>>

\* A task other than MM or FS: not emulated, failure.
Trap_OtherTask ==
    /\ pc = "trap"
    /\ Trap_func \in {minix_syscall_func_send, minix_syscall_func_both}
    /\ RAM_Block_InBounds(Trap_msg, Long(minix_message_size))
    /\ Trap_src_dest \notin {minix_task_mm, minix_task_fs}
    /\ Trap_Return(MINIXCompat_RAM, Trap_message, minix_syscall_result_failure, Long(0),
                   "task", Trap_src_dest)
    /\ pc' = "quantum"
    /\ UNCHANGED <<execVars, minix_current_break, fdVars, procVars>>

\* assert((sc >= minix_syscall_unused0) && (sc <= minix_syscall_unused69))
Trap_BadCall ==
    /\ Trap_ToServer
    /\ Trap_sc > minix_syscall_unused69
    /\ pc' = "aborted"
    /\ UNCHANGED <<execVars, MINIXCompat_RAM, reg, minix_current_break, fdVars, procVars,
                   last, ncalls>>

\* minix_syscall_table[sc] == NULL: failure.
Trap_Unimplemented ==
    /\ Trap_ToServer
    /\ Trap_sc <= minix_syscall_unused69
    /\ Trap_sc \notin minix_syscall_table
    /\ Trap_Return(MINIXCompat_RAM, Trap_message, minix_syscall_result_failure, Long(0),
                   "unimplemented", Trap_sc)
    /\ pc' = "quantum"
    /\ UNCHANGED <<execVars, minix_current_break, fdVars, procVars>>

----------------------------------------------------------------------------
(* Handlers: exit, brk, exece.                                             *)

\* MINIXCompat_SysCall_exit: MINIXCompat_exit(m1_i1).  The message stays as
\* the handler swapped it.
MINIXCompat_SysCall_exit ==
    /\ Dispatched(minix_syscall_exit)
    /\ LET message == MINIXCompat_Message_Swap_mess1(Trap_message)
           value   == S16(HostGet16(message, off_i1))
       IN  /\ MINIXCompat_exit_status' = value
           /\ MINIXCompat_Execution_ChangeState("Finished", "quantum")
           /\ IF ChangeState_Legal(MINIXCompat_State, "Finished")
              THEN Trap_Return(MINIXCompat_RAM, message,
                               minix_syscall_result_success_empty, Long(0), "exit", value)
              ELSE Trap_Abort(MINIXCompat_RAM, "exit", value)
    /\ UNCHANGED <<minix_current_break, fdVars, procVars>>

\* A brk that only checks the limit.
brk_Allowed_BelowLimit(minix_requested_addr, current_break) ==
    Long_Less(minix_requested_addr, Long(MINIXCompat_Executable_Limit))

\* The condition under which brk moves the break.
brk_Allowed(minix_requested_addr, current_break) ==
    /\ Long_Less(minix_requested_addr, Long(MINIXCompat_Executable_Limit))
    /\ Long_LessEq(current_break, minix_requested_addr)

\* MINIXCompat_SysCall_brk
MINIXCompat_SysCall_brk ==
    /\ Dispatched(minix_syscall_break)
    /\ LET message == MINIXCompat_Message_Swap_mess1(Trap_message)
           minix_requested_addr == HostGetLong(message, off_p1)
           ok == brk_Allowed(minix_requested_addr, minix_current_break)
           minix_resulting_addr == IF ok THEN minix_requested_addr ELSE Long_Max
           minix_brk_error == IF ok THEN 0 ELSE -minix_ENOMEM
           reply == MINIXCompat_Message_Swap_mess2(
                        HostPutLong(HostPut16(MINIXCompat_Message_Clear,
                            off_m_type, minix_brk_error), off_p3, minix_resulting_addr))
       IN  /\ minix_current_break' = IF ok THEN minix_resulting_addr ELSE minix_current_break
           /\ Trap_Return(MINIXCompat_RAM, reply, minix_syscall_result_success_empty,
                          Long(0), "brk", minix_requested_addr)
    /\ pc' = "quantum"
    /\ UNCHANGED <<execVars, fdVars, procVars>>

\* MINIXCompat_Processes_ExecuteWithStackBlock, up to the state change, with
\* the tool loaded as l: the error it returns and guest RAM as it leaves it.
Execute_Loaded(l, stack_on_host) ==
    IF l.err # 0
    THEN [err |-> l.err, ram |-> MINIXCompat_RAM]
    ELSE [err |-> 0,
          ram |-> [MINIXCompat_RAM EXCEPT
                      !.exec  = Overlay(@, l.buf),
                      !.stack = Overlay(@, RelocateStack(stack_on_host))]]

MINIXCompat_Processes_ExecuteWithStackBlock(executable_path, stack_on_host) ==
    Execute_Loaded(MINIXCompat_Processes_LoadTool(executable_path), stack_on_host)

\* The reply of exece: the cleared message with m_type = exec_err, as mess2.
exece_Reply(exec_err) ==
    MINIXCompat_Message_Swap_mess2(HostPut16(MINIXCompat_Message_Clear, off_m_type, exec_err))

\* exece after MINIXCompat_Processes_ExecuteWithStackBlock has returned e, or
\* has failed the assertion of the state change.
exece_Executed(e) ==
    IF e.err # 0
    THEN /\ Trap_Return(e.ram, exece_Reply(e.err), minix_syscall_result_success, Long(0),
                        "exece", e.err)
         /\ pc' = "quantum"
         /\ UNCHANGED execVars
    ELSE /\ MINIXCompat_Execution_ChangeState("Ready", "quantum")
         /\ UNCHANGED MINIXCompat_exit_status
         /\ IF ChangeState_Legal(MINIXCompat_State, "Ready")
            THEN Trap_Return(e.ram, exece_Reply(0), minix_syscall_result_success, Long(0),
                             "exece", 0)
            ELSE Trap_Abort(e.ram, "exece", 0)

\* exece with its arguments read from the message: the path and the stack
\* snapshot are copied to the host.
exece_Copy(minix_path_len, minix_path, minix_stack_size, minix_stack) ==
    IF \/ ~RAM_Block_InBounds(minix_path, LongOfInt16(minix_path_len))
       \/ ~RAM_Block_InBounds(minix_stack, LongOfInt16(minix_stack_size))
    THEN /\ pc' = "aborted"
         /\ Trap_Abort(MINIXCompat_RAM, "exece", 0)
         /\ UNCHANGED execVars
    ELSE exece_Executed(
             MINIXCompat_Processes_ExecuteWithStackBlock(
                 CString(MINIXCompat_RAM_Copy_Block_To_Host(minix_path, minix_path_len)),
                 MINIXCompat_RAM_Copy_Block_To_Host(minix_stack, minix_stack_size)))

exece_Message(message) ==
    exece_Copy(S16(HostGet16(message, off_i1)), HostGetLong(message, off_p1),
               S16(HostGet16(message, off_i2)), HostGetLong(message, off_p2))

\* The mutation of exece that gives the new program a break of 0.
SysCall_exece_ResetsBreak ==
    /\ Dispatched(minix_syscall_exece)
    /\ exece_Message(MINIXCompat_Message_Swap_mess1(Trap_message))
    /\ minix_current_break' =
           IF MINIXCompat_State' = "Ready" /\ MINIXCompat_State = "Running"
           THEN Long(0) ELSE minix_current_break
    /\ UNCHANGED <<fdVars, procVars>>

\* MINIXCompat_SysCall_exece
MINIXCompat_SysCall_exece ==
    /\ Dispatched(minix_syscall_exece)
    /\ exece_Message(MINIXCompat_Message_Swap_mess1(Trap_message))
    /\ UNCHANGED <<minix_current_break, fdVars, procVars>>

----------
(* The guest of the execution model: exit, brk, exece, calls without a     *)
(* handler, and traps the dispatcher rejects.                              *)

\* A stack snapshot as the guest library builds it for exece: argc 1, one
\* argv offset, no environment, then the argument string.
Snapshot == BE32(1) \o BE32(16) \o BE32(0) \o BE32(0) \o <<116, 0, 0, 0>>

BrkAddrs == { Long(8192), Long(9472), Long(12288), Long(MINIXCompat_Executable_Limit - 1),
              Long(MINIXCompat_Executable_Limit), Long_Max }

ExecPaths == { <<47, c, 0>> : c \in {116, 110, 111, 99, 98, 104, 101, 117, 120} }

UnimplementedCalls == { 0, 12, minix_syscall_nice, 54, minix_syscall_unused69 }

NoPointers(type, i1) == Mess1(type, i1, 0, 0, Long(0), Long(0), Long(0))

ExecSetups ==
    { Setup(minix_syscall_func_send, minix_task_mm, MsgAddr,
            NoPointers(minix_syscall_exit, 0), <<>>, <<>>),
      Setup(minix_syscall_func_both, minix_task_mm, MsgAddr,
            NoPointers(minix_syscall_exit, 42), <<>>, <<>>),
      Setup(minix_syscall_func_send, minix_task_mm, MsgAddr,
            Mess1(minix_syscall_break, 0, 0, 0, Long(12288), Long(0), Long(0)), <<>>, <<>>),
      Setup(minix_syscall_func_send, minix_task_mm, MsgAddr,
            Mess1(minix_syscall_exece, 3, Len(Snapshot), 0,
                  Long(PathAddr), Long(SnapAddr), Long(0)), <<47, 110, 0>>, Snapshot) }
    \cup
    { Setup(minix_syscall_func_both, minix_task_mm, MsgAddr,
            Mess1(minix_syscall_break, 0, 0, 0, a, Long(0), Long(0)), <<>>, <<>>) :
        a \in BrkAddrs }
    \cup
    { Setup(minix_syscall_func_both, minix_task_mm, MsgAddr,
            Mess1(minix_syscall_exece, Len(p), Len(Snapshot), 0,
                  Long(PathAddr), Long(SnapAddr), Long(0)),
            p, Snapshot) :
        p \in ExecPaths }
    \cup
    { Setup(f, t, MsgAddr, Mess1(minix_syscall_nice, 5, 6, 7, Long(PathAddr), Long(SnapAddr), Long(9)),
            <<47, 116, 0>>, Snapshot) :
        f \in {minix_syscall_func_send, minix_syscall_func_both},
        t \in {minix_task_mm, minix_task_fs} }
    \cup
    { Setup(minix_syscall_func_both, minix_task_fs, MsgAddr, NoPointers(sc, 1), <<>>, <<>>) :
        sc \in UnimplementedCalls \ {minix_syscall_nice} }
    \cup
    { Setup(minix_syscall_func_receive, minix_task_mm, MsgAddr,
            NoPointers(minix_syscall_nice, 0), <<>>, <<>>),
      Setup(minix_syscall_func_both, 2, MsgAddr, NoPointers(minix_syscall_nice, 0), <<>>, <<>>),
      Setup(0, minix_task_mm, MsgAddr, NoPointers(minix_syscall_nice, 0), <<>>, <<>>),
      Setup(minix_syscall_func_both, minix_task_mm, BadAddr,
            NoPointers(minix_syscall_nice, 0), <<>>, <<>>),
      Setup(minix_syscall_func_both, minix_task_mm, MsgAddr,
            NoPointers(minix_syscall_unused69 + 1, 0), <<>>, <<>>) }

Guest_Exec == GuestPrepare(ExecSetups)

NextExec ==
    \/ Main_Started
    \/ Main_Ready
    \/ Main_Running
    \/ Main_Finished
    \/ Quantum_End
    \/ Guest_Exec
    \/ Trap_BadFunc
    \/ Trap_BadMessage
    \/ Trap_Receive
    \/ Trap_OtherTask
    \/ Trap_BadCall
    \/ Trap_Unimplemented
    \/ MINIXCompat_SysCall_exit
    \/ MINIXCompat_SysCall_brk
    \/ MINIXCompat_SysCall_exece

SpecExec == Init /\ [][NextExec]_vars

----------------------------------------------------------------------------
(* Properties of the execution model.                                      *)

\* C1: every pair (current, new) handed to MINIXCompat_Execution_ChangeState
\* is one of Started->Ready, Ready->Running, Running->Ready,
\* Running->Finished, Finished->Finished, however many system calls the
\* guest makes in one quantum.
C1_OnlyLegalStateChanges ==
    state_change[1] # "none" => ChangeState_Legal(state_change[1], state_change[2])

\* The requested address and the reply of a brk, as the guest sees them.
Brk_Request      == GetLong(MINIXCompat_RAM.msg, off_p1)
Brk_Succeeds     == /\ Long_Less(Brk_Request, Long(MINIXCompat_Executable_Limit))
                    /\ ~Long_Less(Brk_Request, minix_current_break)

\* C3: brk(a) succeeds exactly when a is below 0x00FE0000 and not below the
\* current break; then the break becomes a and the reply carries m_type 0
\* and the pointer a.  Otherwise the reply carries m_type -12 (ENOMEM) and
\* the pointer 0xFFFFFFFF and the break stays.  No step lowers the break.
C3_BrkContract ==
    [][ /\ ~Long_Less(minix_current_break', minix_current_break)
        /\ Dispatched(minix_syscall_break) =>
            /\ last'.op = "brk"
            /\ IF Brk_Succeeds
               THEN /\ minix_current_break' = Brk_Request
                    /\ S16(Get16(last'.reply, off_m_type)) = 0
                    /\ GetLong(last'.reply, off_p3) = Brk_Request
               ELSE /\ minix_current_break' = minix_current_break
                    /\ S16(Get16(last'.reply, off_m_type)) = -12
                    /\ GetLong(last'.reply, off_p3) = Long_Max
            /\ Trap_func = minix_syscall_func_both => MINIXCompat_RAM'.msg = last'.reply
      ]_vars

\* brk(0x2500) has been refused while the break is 0x3000.
C3_Witness ==
    /\ last.op = "brk"
    /\ last.func = minix_syscall_func_both
    /\ last.arg = Long(9472)
    /\ minix_current_break = Long(12288)
    /\ S16(Get16(MINIXCompat_RAM.msg, off_m_type)) = -12
    /\ GetLong(MINIXCompat_RAM.msg, off_p3) = Long_Max

\* The executable an exece names cannot be loaded.
Exece_LoadFails ==
    MINIXCompat_Processes_LoadTool(CString(MINIXCompat_RAM.path)).err # 0

\* C9: when loading fails during exece, the execution state stays as it is,
\* guest RAM at the executable base and at the stack base is unchanged, and
\* the reply carries a negative MINIX errno in m_type.
C9_FailedExecIsNegativeErrno ==
    [][ (Dispatched(minix_syscall_exece) /\ Exece_LoadFails) =>
            /\ MINIXCompat_State' = MINIXCompat_State
            /\ pc' = "quantum"
            /\ MINIXCompat_RAM'.exec = MINIXCompat_RAM.exec
            /\ MINIXCompat_RAM'.stack = MINIXCompat_RAM.stack
            /\ S16(Get16(last'.reply, off_m_type)) < 0
      ]_vars

\* The call numbers 0..69 for which the source installs no handler.
CallsWithoutHandler ==
    (0..69) \ {1, 2, 3, 4, 5, 6, 7, 8, 10, 13, 17, 18, 19, 20, 24, 28, 33, 37, 47, 48, 59}

\* C10: a send or send-and-receive trap to MM or FS whose m_type is a call
\* number without a handler sets D0 to 0xFFFFFFFF and changes nothing else:
\* not guest RAM (the message bytes included), the FD table, the process
\* table, the signal table, the break or the execution state.
C10_UnimplementedOnlySetsD0 ==
    [][ (Trap_ToServer /\ Trap_sc \in CallsWithoutHandler) =>
            /\ reg'.D0 = Long_Max
            /\ reg'.D1 = reg.D1 /\ reg'.A0 = reg.A0
            /\ pc' = "quantum"
            /\ UNCHANGED <<MINIXCompat_RAM, fdVars, procVars, minix_current_break, execVars>>
      ]_vars

\* nice (34) sent with send-and-receive has failed; the message the guest
\* built is still in place.
C10_Witness ==
    /\ last.op = "unimplemented"
    /\ last.arg = minix_syscall_nice
    /\ last.func = minix_syscall_func_both
    /\ reg.D0 = Long_Max
    /\ Get16(MINIXCompat_RAM.msg, off_m_type) = minix_syscall_nice
    /\ Get16(MINIXCompat_RAM.msg, off_i1) = 5
    /\ GetLong(MINIXCompat_RAM.msg, off_p1) = Long(PathAddr)
    /\ pc = "quantum"

----------------------------------------------------------------------------
(* The file descriptor table.                                              *)

MINIXCompat_fd_IsInRange(minix_fd) == minix_fd >= 0 /\ minix_fd < MINIXCompat_fd_count

MINIXCompat_fd_IsOpen(table, minix_fd) == table[minix_fd].minix_fd # -1

MINIXCompat_fd_GetHostDescriptor(table, minix_fd) == table[minix_fd].host_fd

\* A SetHostDescriptor that forgets to record the guest descriptor.
SetHostDescriptor_HostOnly(table, minix_fd, host_fd) ==
    [table EXCEPT ![minix_fd].host_fd = host_fd, ![minix_fd].f_type = "f_unchecked"]

MINIXCompat_fd_SetHostDescriptor(table, minix_fd, host_fd) ==
    [table EXCEPT ![minix_fd].host_fd = host_fd,
                  ![minix_fd].minix_fd = minix_fd,
                  ![minix_fd].f_type = "f_unchecked"]

MINIXCompat_fd_ClearDescriptorEntry(table, minix_fd) ==
    [table EXCEPT ![minix_fd] = ClearedEntry]

MINIXCompat_fd_IsDirectory(table, minix_fd) == table[minix_fd].f_type = "f_directory"

\* The lowest slot whose host descriptor is -1, or -ENFILE.
MINIXCompat_fd_FindNextAvailable(table) ==
    LET free == { i \in 0..(MINIXCompat_fd_count - 1) :
                    MINIXCompat_fd_GetHostDescriptor(table, i) = -1 }
    IN  IF free = {} THEN -ENFILE ELSE SetMin(free)

----------------------------------------------------------------------------
(* The host side of the file calls.  The host decides the outcome of each  *)
(* host call; fault names the host call, if any, that fails although the   *)
(* file system would let it succeed.                                       *)

HostFaults == {"none", "open", "stat", "opendir", "readdir", "close", "io"}

\* The bit of v that mask (a power of two) selects.
Bit(v, mask) == (U16(v) \div mask) % 2 = 1

minix_O_CREAT  == 64       \* 00100
minix_O_EXCL   == 128      \* 00200
minix_O_TRUNC  == 512      \* 01000
minix_O_WRONLY == 1
minix_O_RDWR   == 2

\* The host flags that matter to the outcome of open(2).
MINIXCompat_File_HostOpenFlagsForMINIXOpenFlags(minix_flags) ==
    [O_CREAT  |-> Bit(minix_flags, minix_O_CREAT),
     O_EXCL   |-> Bit(minix_flags, minix_O_EXCL),
     O_TRUNC  |-> Bit(minix_flags, minix_O_TRUNC),
     O_WRONLY |-> Bit(minix_flags, minix_O_WRONLY),
     O_RDWR   |-> Bit(minix_flags, minix_O_RDWR)]

\* The host descriptor open(2) returns: the lowest one not in use.
HostLowestFree(fds) == SetMin((0..(Cardinality(fds))) \ fds)

\* errno of a host open(2) of node with host_flags, 0 if it succeeds.
HostOpenError(node, host_flags, fault) ==
    CASE node.kind = "none" /\ ~host_flags.O_CREAT -> ENOENT
      [] node.kind # "none" /\ host_flags.O_CREAT /\ host_flags.O_EXCL -> EEXIST
      [] node.kind = "dir" /\ (host_flags.O_CREAT \/ host_flags.O_WRONLY \/ host_flags.O_RDWR)
            -> EISDIR
      [] node.kind = "file" /\ ~node.readable -> EACCES
      [] fault = "open" -> EMFILE
      [] OTHER -> 0

\* A host inode number is the sequence of its four 16-bit words, high first.
MINIXCompat_File_MINIXInodeForHostInode(host_inode) ==
    IF host_inode = <<0, 0, 0, 0>> THEN 0
    ELSE IF host_inode[4] # 0 THEN host_inode[4]
    ELSE (host_inode[1] + host_inode[2] + host_inode[3] + host_inode[4]) % 65536

\* The entries readdir(3) yields for the directories of the modelled host.
HostDirEntries ==
    << [d_ino |-> <<0, 0, 0, 2>>, d_name |-> <<46>>],
       [d_ino |-> <<0, 0, 0, 2>>, d_name |-> <<46, 46>>],
       [d_ino |-> <<0, 0, 1, 0>>, d_name |-> <<102>>] >>

sizeof_minix_dirent == 16

\* One cached minix_dirent_t: d_ino in guest byte order, then 14 name bytes.
DirentBytes(entry) ==
    BE16(MINIXCompat_File_MINIXInodeForHostInode(entry.d_ino)) \o Block(entry.d_name, 14)

\* The cache grows by 32 entries whenever an entry does not fit.
DircacheCount(entry_count) ==
    IF entry_count <= 32 THEN 32 ELSE 32 * ((entry_count + 31) \div 32)

\* MINIXCompat_Dir_Precache: the slot with the directory cached, or the error.
MINIXCompat_Dir_Precache(table, minix_fd, fault) ==
    IF fault = "opendir"
    THEN [result |-> -MINIXCompat_Errors_MINIXErrorForHostError(EMFILE), table |-> table,
          faulted |-> TRUE]
    ELSE IF fault = "readdir"
    THEN [result |-> -MINIXCompat_Errors_MINIXErrorForHostError(EIO), table |-> table,
          faulted |-> TRUE]
    ELSE [result |-> 0, faulted |-> FALSE,
          table  |-> [table EXCEPT
                         ![minix_fd].dir_entries = [i \in 1..Len(HostDirEntries) |->
                                                        DirentBytes(HostDirEntries[i])],
                         ![minix_fd].dir_count   = DircacheCount(Len(HostDirEntries)),
                         ![minix_fd].dir_offset  = 0]]

\* stat(2) repeated while it fails with EINTR; any other failure yields -EINTR.
stat_without_EINTR(fault) == IF fault = "stat" THEN -EINTR ELSE 0

\* MINIXCompat_Dir_CheckIfDirAndCache with the result of its stat.
CheckIfDir_Stat(table, is_directory, minix_fd, fault, stat_result) ==
    IF stat_result # 0
    THEN [result |-> S16(MINIXCompat_Errors_MINIXErrorForHostError(-stat_result)),
          table  |-> table, faulted |-> TRUE]
    ELSE IF is_directory
    THEN MINIXCompat_Dir_Precache([table EXCEPT ![minix_fd].f_type = "f_directory"],
                                  minix_fd, fault)
    ELSE [result |-> 0, table |-> [table EXCEPT ![minix_fd].f_type = "f_file"],
          faulted |-> FALSE]

MINIXCompat_Dir_CheckIfDirAndCache(table, is_directory, minix_fd, fault) ==
    CheckIfDir_Stat(table, is_directory, minix_fd, fault, stat_without_EINTR(fault))

\* MINIXCompat_File_Open after MINIXCompat_Dir_CheckIfDirAndCache returned d:
\* a negative result becomes minix_fd, the host descriptor is closed and
\* MINIXCompat_fd_ClearDescriptorEntry(minix_fd) asserts minix_fd is in range.
Open_Checked(d, fds, minix_fd, host_fd) ==
    IF d.result < 0
    THEN IF MINIXCompat_fd_IsInRange(d.result)
         THEN [result |-> d.result, abort |-> FALSE, host_fds |-> fds \ {host_fd},
               table |-> MINIXCompat_fd_ClearDescriptorEntry(d.table, d.result),
               faulted |-> d.faulted]
         ELSE [result |-> d.result, abort |-> TRUE, host_fds |-> fds \ {host_fd},
               table |-> d.table, faulted |-> d.faulted]
    ELSE [result |-> minix_fd, abort |-> FALSE, host_fds |-> fds \cup {host_fd},
          table |-> d.table, faulted |-> d.faulted]

\* ... after open(2) returned host_fd, or failed with open_errno.
Open_Opened(table, fds, node, minix_fd, open_errno, host_fd, fault) ==
    IF open_errno # 0
    THEN [result |-> -MINIXCompat_Errors_MINIXErrorForHostError(open_errno),
          abort |-> FALSE, host_fds |-> fds, table |-> table,
          faulted |-> (fault = "open" /\ open_errno = EMFILE)]
    ELSE Open_Checked(
             MINIXCompat_Dir_CheckIfDirAndCache(
                 MINIXCompat_fd_SetHostDescriptor(table, minix_fd, host_fd),
                 node.kind = "dir", minix_fd, fault),
             fds, minix_fd, host_fd)

\* ... with the slot MINIXCompat_fd_FindNextAvailable found.
Open_Slot(table, fds, node, host_flags, minix_fd, fault) ==
    IF minix_fd < 0
    THEN [result |-> -MINIXCompat_Errors_MINIXErrorForHostError(ENFILE),
          abort |-> FALSE, host_fds |-> fds, table |-> table, faulted |-> FALSE]
    ELSE Open_Opened(table, fds, node, minix_fd, HostOpenError(node, host_flags, fault),
                     HostLowestFree(fds), fault)

MINIXCompat_File_Open(table, fds, minix_path, minix_flags, fault) ==
    Open_Slot(table, fds, HostNode(MINIXCompat_Filesystem_CopyHostPathForPath(minix_path)),
              MINIXCompat_File_HostOpenFlagsForMINIXOpenFlags(minix_flags),
              MINIXCompat_fd_FindNextAvailable(table), fault)

MINIXCompat_File_Create(table, fds, minix_path, fault) ==
    MINIXCompat_File_Open(table, fds, minix_path,
                          minix_O_CREAT + minix_O_TRUNC + minix_O_WRONLY, fault)

\* The mutation of close that keeps the slot when close(2) fails.
File_Close_KeepOnError(table, fds, minix_fd, fault) ==
    IF ~MINIXCompat_fd_IsInRange(minix_fd)
    THEN [abort |-> TRUE, table |-> table, host_fds |-> fds, result |-> 0, faulted |-> FALSE]
    ELSE IF ~MINIXCompat_fd_IsOpen(table, minix_fd)
    THEN [abort |-> TRUE, table |-> table, host_fds |-> fds, result |-> 0, faulted |-> FALSE]
    ELSE IF fault = "close"
    THEN [abort |-> FALSE, faulted |-> TRUE, table |-> table, host_fds |-> fds,
          result |-> -MINIXCompat_Errors_MINIXErrorForHostError(EIO)]
    ELSE [abort    |-> FALSE,
          faulted  |-> FALSE,
          table    |-> MINIXCompat_fd_ClearDescriptorEntry(table, minix_fd),
          host_fds |-> fds \ {MINIXCompat_fd_GetHostDescriptor(table, minix_fd)},
          result   |-> 0]

\* MINIXCompat_File_Close: the host descriptor is released and the slot is
\* cleared whether close(2) succeeded or not.
MINIXCompat_File_Close(table, fds, minix_fd, fault) ==
    IF ~MINIXCompat_fd_IsInRange(minix_fd)
    THEN [abort |-> TRUE, table |-> table, host_fds |-> fds, result |-> 0, faulted |-> FALSE]
    ELSE IF ~MINIXCompat_fd_IsOpen(table, minix_fd)
    THEN [abort |-> TRUE, table |-> table, host_fds |-> fds, result |-> 0, faulted |-> FALSE]
    ELSE [abort    |-> FALSE,
          faulted  |-> fault = "close",
          table    |-> MINIXCompat_fd_ClearDescriptorEntry(table, minix_fd),
          host_fds |-> fds \ {MINIXCompat_fd_GetHostDescriptor(table, minix_fd)},
          result   |-> IF fault = "close"
                       THEN -MINIXCompat_Errors_MINIXErrorForHostError(EIO) ELSE 0]

----------------------------------------------------------------------------
(* Handlers: open, creat, close.                                           *)

htons(v) == (U16(v) % 256) * 256 + (U16(v) \div 256)

\* The cleared reply with m_type = result, swapped as mess1.
Reply_mess1(result) ==
    MINIXCompat_Message_Swap_mess1(HostPut16(MINIXCompat_Message_Clear, off_m_type, result))

\* The host may fail the call that fault names once per MaxHostFaults.
Fault_Allowed(o, fault) ==
    /\ o.faulted = (fault # "none")
    /\ fault # "none" => host_faults < MaxHostFaults

\* The end of a file handler whose subsystem call returned o, with guest RAM
\* as the handler leaves it and the reply it built.
File_Return(o, ram, reply, result, out, op, arg) ==
    /\ MINIXCompat_fd_table' = o.table
    /\ host_fds' = o.host_fds
    /\ host_faults' = IF o.faulted THEN host_faults + 1 ELSE host_faults
    /\ IF o.abort
       THEN pc' = "aborted" /\ Trap_Abort(ram, op, arg)
       ELSE pc' = "quantum" /\ Trap_Return(ram, reply, result, out, op, arg)

\* An assertion failed before the subsystem was called.
File_Abort(op, arg) ==
    /\ pc' = "aborted"
    /\ Trap_Abort(MINIXCompat_RAM, op, arg)
    /\ UNCHANGED fdVars

open_Opened(o, fault, op) ==
    /\ Fault_Allowed(o, fault)
    /\ File_Return(o, MINIXCompat_RAM, Reply_mess1(o.result),
                   minix_syscall_result_success_empty, Long(0), op, o.result)

\* open with its arguments read from the message: the name is copied to the host.
open_Copy(minix_name_len, minix_name, minix_flags, fault) ==
    IF ~RAM_Block_InBounds(minix_name, LongOfInt16(minix_name_len))
    THEN fault = "none" /\ File_Abort("open", minix_name_len)
    ELSE open_Opened(
             MINIXCompat_File_Open(MINIXCompat_fd_table, host_fds,
                 CString(MINIXCompat_RAM_Copy_Block_To_Host(minix_name, minix_name_len)),
                 minix_flags, fault),
             fault, "open")

\* The flags decide which layout the message is swapped as.
open_Message(message, minix_flags, fault) ==
    IF Bit(minix_flags, minix_O_CREAT)
    THEN open_Copy(S16(HostGet16(MINIXCompat_Message_Swap_mess1(message), off_i1)),
                   HostGetLong(MINIXCompat_Message_Swap_mess1(message), off_p1),
                   minix_flags, fault)
    ELSE open_Copy(S16(HostGet16(MINIXCompat_Message_Swap_mess3(message), off_i1)),
                   HostGetLong(MINIXCompat_Message_Swap_mess3(message), off_m3_p1),
                   minix_flags, fault)

\* MINIXCompat_SysCall_open
MINIXCompat_SysCall_open ==
    /\ Dispatched(minix_syscall_open)
    /\ \E fault \in HostFaults :
           open_Message(Trap_message, S16(htons(HostGet16(Trap_message, off_i2))), fault)
    /\ UNCHANGED <<execVars, minix_current_break, procVars>>

creat_Copy(minix_name_len, minix_name, fault) ==
    IF ~RAM_Block_InBounds(minix_name, LongOfInt16(minix_name_len))
    THEN fault = "none" /\ File_Abort("creat", minix_name_len)
    ELSE open_Opened(
             MINIXCompat_File_Create(MINIXCompat_fd_table, host_fds,
                 CString(MINIXCompat_RAM_Copy_Block_To_Host(minix_name, minix_name_len)),
                 fault),
             fault, "creat")

\* MINIXCompat_SysCall_creat
MINIXCompat_SysCall_creat ==
    /\ Dispatched(minix_syscall_creat)
    /\ \E fault \in HostFaults :
           creat_Copy(S16(HostGet16(MINIXCompat_Message_Swap_mess3(Trap_message), off_i1)),
                      HostGetLong(MINIXCompat_Message_Swap_mess3(Trap_message), off_m3_p1),
                      fault)
    /\ UNCHANGED <<execVars, minix_current_break, procVars>>

close_Closed(o, fault, minix_fd) ==
    /\ Fault_Allowed(o, fault)
    /\ File_Return(o, MINIXCompat_RAM, Reply_mess1(o.result),
                   minix_syscall_result_success_empty, Long(0), "close", minix_fd)

\* MINIXCompat_SysCall_close
MINIXCompat_SysCall_close ==
    /\ Dispatched(minix_syscall_close)
    /\ \E fault \in HostFaults :
           close_Closed(
               MINIXCompat_File_Close(MINIXCompat_fd_table, host_fds,
                   S16(HostGet16(MINIXCompat_Message_Swap_mess1(Trap_message), off_i1)), fault),
               fault, S16(HostGet16(MINIXCompat_Message_Swap_mess1(Trap_message), off_i1)))
    /\ UNCHANGED <<execVars, minix_current_break, procVars>>

----------------------------------------------------------------------------
(* Handlers: read, write, lseek, fstat.                                    *)

\* Guest RAM after a block has been copied from the host to m68k_address.
MINIXCompat_RAM_Copy_Block_From_Host(ram, m68k_address, block) ==
    CASE m68k_address = Long(MsgAddr)  -> [ram EXCEPT !.msg  = Overlay(@, block)]
      [] m68k_address = Long(PathAddr) -> [ram EXCEPT !.path = Overlay(@, block)]
      [] m68k_address = Long(SnapAddr) -> [ram EXCEPT !.snap = Overlay(@, block)]
      [] m68k_address = Long(BufAddr)  -> [ram EXCEPT !.buf  = Overlay(@, block)]
      [] OTHER                         -> ram

\* What a read(2) of the modelled host files delivers, and how long they are.
HostData      == <<104, 105>>
HostPositions == {0, Len(HostData)}

\* Values of bytes the program reads without having written them.
JunkBytes == {0, 255}

\* The first n bytes at a host buffer; those past its end are not its own.
HostBytes(buf, n, junk) == [i \in 1..n |-> IF i <= Len(buf) THEN buf[i] ELSE junk]

\* The bytes of the directory cache from offset cur_off on.
DirCacheBytes(entry, cur_off, size) ==
    [k \in 1..size |->
        LET i == ((cur_off + k - 1) \div sizeof_minix_dirent) + 1
            j == ((cur_off + k - 1) % sizeof_minix_dirent) + 1
        IN  IF i <= Len(entry.dir_entries) THEN entry.dir_entries[i][j] ELSE 0]

\* The mutation of the directory read that copies without the bounds test.
Dir_Read_Unchecked(table, minix_fd, host_buf_size) ==
    [result |-> host_buf_size,
     buf    |-> DirCacheBytes(table[minix_fd], table[minix_fd].dir_offset, host_buf_size),
     table  |-> [table EXCEPT ![minix_fd].dir_offset = @ + host_buf_size]]

MINIXCompat_Dir_Read(table, minix_fd, host_buf_size) ==
    IF table[minix_fd].dir_offset + host_buf_size
           <= table[minix_fd].dir_count * sizeof_minix_dirent
    THEN [result |-> host_buf_size,
          buf    |-> DirCacheBytes(table[minix_fd], table[minix_fd].dir_offset, host_buf_size),
          table  |-> [table EXCEPT ![minix_fd].dir_offset = @ + host_buf_size]]
    ELSE [result |-> MINIXCompat_Errors_MINIXErrorForHostError(EIO),
          buf    |-> Zeros(host_buf_size),
          table  |-> table]

\* The file branch of MINIXCompat_File_Read: read(2) delivers count bytes.
File_Read_Host(table, minix_fd, host_buf_size, fault, count) ==
    IF MINIXCompat_fd_GetHostDescriptor(table, minix_fd) < 0
    THEN [result |-> -MINIXCompat_Errors_MINIXErrorForHostError(ENFILE),
          buf |-> Zeros(host_buf_size), table |-> table, faulted |-> FALSE]
    ELSE IF fault = "io"
    THEN [result |-> -MINIXCompat_Errors_MINIXErrorForHostError(EIO),
          buf |-> Zeros(host_buf_size), table |-> table, faulted |-> TRUE]
    ELSE [result |-> count,
          buf |-> Block(SubSeq(HostData, 1, count), host_buf_size),
          table |-> table, faulted |-> FALSE]

\* MINIXCompat_File_Read with the buffer calloc(host_buf_size) returned: a
\* size of 0 or less fails one of the assertions on the buffer.
MINIXCompat_File_Read(table, minix_fd, host_buf_size, fault, count) ==
    IF \/ ~MINIXCompat_fd_IsInRange(minix_fd)
       \/ ~MINIXCompat_fd_IsOpen(table, minix_fd)
       \/ host_buf_size <= 0
    THEN [abort |-> TRUE, faulted |-> FALSE, result |-> 0, buf |-> <<>>, table |-> table]
    ELSE IF MINIXCompat_fd_IsDirectory(table, minix_fd)
    THEN [abort |-> FALSE, faulted |-> FALSE] @@ MINIXCompat_Dir_Read(table, minix_fd, host_buf_size)
    ELSE [abort |-> FALSE] @@ File_Read_Host(table, minix_fd, host_buf_size, fault, count)

\* read after MINIXCompat_File_Read returned r: a positive result is the
\* number of bytes copied to the guest's buffer.
read_Read(r, minix_fd, minix_buf, fault, junk) ==
    /\ Fault_Allowed(r, fault)
    /\ IF ~r.abort /\ r.result > 0 /\ ~RAM_Block_InBounds(minix_buf, LongOfInt16(r.result))
       THEN File_Return([r EXCEPT !.abort = TRUE] @@ [host_fds |-> host_fds],
                        MINIXCompat_RAM, Trap_message, "abort", Long(0), "read", minix_fd)
       ELSE File_Return(r @@ [host_fds |-> host_fds],
               IF ~r.abort /\ r.result > 0
               THEN MINIXCompat_RAM_Copy_Block_From_Host(MINIXCompat_RAM, minix_buf,
                        HostBytes(r.buf, r.result, junk))
               ELSE MINIXCompat_RAM,
               Reply_mess1(r.result), minix_syscall_result_success_empty, Long(0),
               "read", minix_fd)

read_Message(message, fault, count, junk) ==
    /\ count <= S16(HostGet16(message, off_i2)) \/ count = 0
    /\ read_Read(MINIXCompat_File_Read(MINIXCompat_fd_table, S16(HostGet16(message, off_i1)),
                                       S16(HostGet16(message, off_i2)), fault, count),
                 S16(HostGet16(message, off_i1)), HostGetLong(message, off_p1), fault, junk)

\* MINIXCompat_SysCall_read
MINIXCompat_SysCall_read ==
    /\ Dispatched(minix_syscall_read)
    /\ \E fault \in HostFaults, count \in HostPositions, junk \in JunkBytes :
           read_Message(MINIXCompat_Message_Swap_mess1(Trap_message), fault, count, junk)
    /\ UNCHANGED <<execVars, minix_current_break, procVars>>

\* MINIXCompat_File_Write: write(2) takes all the bytes or fails.
MINIXCompat_File_Write(table, minix_fd, host_buf_size, fault) ==
    IF \/ ~MINIXCompat_fd_IsInRange(minix_fd)
       \/ ~MINIXCompat_fd_IsOpen(table, minix_fd)
       \/ MINIXCompat_fd_IsDirectory(table, minix_fd)
       \/ host_buf_size < 0
    THEN [abort |-> TRUE, faulted |-> FALSE, result |-> 0, table |-> table]
    ELSE IF MINIXCompat_fd_GetHostDescriptor(table, minix_fd) < 0
    THEN [abort |-> FALSE, faulted |-> FALSE, table |-> table,
          result |-> -MINIXCompat_Errors_MINIXErrorForHostError(ENFILE)]
    ELSE IF fault = "io"
    THEN [abort |-> FALSE, faulted |-> TRUE, table |-> table,
          result |-> -MINIXCompat_Errors_MINIXErrorForHostError(EIO)]
    ELSE [abort |-> FALSE, faulted |-> FALSE, table |-> table, result |-> host_buf_size]

write_Written(w, minix_fd, fault) ==
    /\ Fault_Allowed(w, fault)
    /\ File_Return(w @@ [host_fds |-> host_fds], MINIXCompat_RAM, Reply_mess1(w.result),
                   minix_syscall_result_success_empty, Long(0), "write", minix_fd)

\* write with its arguments read from the message: the buffer is copied to the host.
write_Message(message, fault) ==
    IF ~RAM_Block_InBounds(HostGetLong(message, off_p1),
                           LongOfInt16(S16(HostGet16(message, off_i2))))
    THEN fault = "none" /\ File_Abort("write", S16(HostGet16(message, off_i1)))
    ELSE write_Written(
             MINIXCompat_File_Write(MINIXCompat_fd_table, S16(HostGet16(message, off_i1)),
                                    S16(HostGet16(message, off_i2)), fault),
             S16(HostGet16(message, off_i1)), fault)

\* MINIXCompat_SysCall_write
MINIXCompat_SysCall_write ==
    /\ Dispatched(minix_syscall_write)
    /\ \E fault \in HostFaults :
           write_Message(MINIXCompat_Message_Swap_mess1(Trap_message), fault)
    /\ UNCHANGED <<execVars, minix_current_break, procVars>>

\* The int32_t that a 32-bit value holds.
Long_Signed(a) ==
    IF a[1] >= 32768 THEN (a[1] - 65536) * 65536 + a[2] ELSE a[1] * 65536 + a[2]

minix_SEEK_SET == 0
minix_SEEK_CUR == 1
minix_SEEK_END == 2

\* A minix_off_t (int32_t) as the pair of its 16-bit halves.
LongOfInt32(v) == << (v \div 65536) % 65536, v % 65536 >>

\* The sum of two minix_off_t; a sum outside the int32_t range wraps, as it
\* does in the builds of the program.
Int32_Add(a, b) == Long_Signed(Long_Add(LongOfInt32(a), LongOfInt32(b)))

\* MINIXCompat_Dir_Seek for a whence of SET, CUR or END.
MINIXCompat_Dir_Seek(table, minix_fd, minix_offset, minix_whence) ==
    LET max_off == table[minix_fd].dir_count * sizeof_minix_dirent - 1
        new_off == CASE minix_whence = minix_SEEK_SET -> Int32_Add(0, minix_offset)
                     [] minix_whence = minix_SEEK_CUR ->
                            Int32_Add(table[minix_fd].dir_offset, minix_offset)
                     [] minix_whence = minix_SEEK_END -> Int32_Add(max_off, minix_offset)
    IN  IF new_off < 0 \/ new_off > max_off
        THEN [result |-> -minix_EINVAL, table |-> table]
        ELSE [result |-> 0, table |-> [table EXCEPT ![minix_fd].dir_offset = new_off]]

\* lseek(2) on the host: standard input, output and error are not seekable,
\* the other files are as long as HostData and stand at position pos.
HostSeek_File(length, host_offset, host_whence, pos) ==
    LET seek_result == CASE host_whence = minix_SEEK_SET -> host_offset
                         [] host_whence = minix_SEEK_CUR -> pos + host_offset
                         [] host_whence = minix_SEEK_END -> length + host_offset
    IN  IF seek_result < 0 THEN -EINVAL ELSE seek_result

HostSeek(host_fd, host_offset, host_whence, pos) ==
    IF host_fd <= 2 THEN -ESPIPE
    ELSE HostSeek_File(Len(HostData), host_offset, host_whence, pos)

\* The file branch of MINIXCompat_File_Seek: the result is an int16_t.
File_Seek_Host(table, seek_result) ==
    IF seek_result < 0
    THEN [result |-> -MINIXCompat_Errors_MINIXErrorForHostError(-seek_result), table |-> table]
    ELSE [result |-> S16(seek_result), table |-> table]

\* MINIXCompat_File_Seek for a whence of SET, CUR or END.
MINIXCompat_File_Seek(table, minix_fd, minix_offset, minix_whence, pos) ==
    IF \/ ~MINIXCompat_fd_IsInRange(minix_fd)
       \/ ~MINIXCompat_fd_IsOpen(table, minix_fd)
    THEN [abort |-> TRUE, faulted |-> FALSE, result |-> 0, table |-> table]
    ELSE IF MINIXCompat_fd_IsDirectory(table, minix_fd)
    THEN [abort |-> FALSE, faulted |-> FALSE]
             @@ MINIXCompat_Dir_Seek(table, minix_fd, minix_offset, minix_whence)
    ELSE [abort |-> FALSE, faulted |-> FALSE]
             @@ File_Seek_Host(table,
                    HostSeek(MINIXCompat_fd_GetHostDescriptor(table, minix_fd),
                             minix_offset, minix_whence, pos))

\* The reply of lseek: m_type is an int16_t, m2_l1 the offset asked for.
lseek_Reply(seek_err, minix_offset) ==
    MINIXCompat_Message_Swap_mess2(
        HostPutLong(HostPut16(MINIXCompat_Message_Clear, off_m_type,
                              IF seek_err = 0 THEN S16(minix_offset[2]) ELSE seek_err),
                    off_p1, minix_offset))

\* *out_result of lseek: the offset asked for when File_Seek returned 0,
\* else its int16_t widened.
lseek_Out(seek_err, minix_offset) ==
    IF seek_err = 0 THEN minix_offset ELSE LongOfInt16(seek_err)

lseek_Sought(k, minix_fd, minix_offset) ==
    File_Return(k @@ [host_fds |-> host_fds], MINIXCompat_RAM,
                lseek_Reply(k.result, minix_offset), minix_syscall_result_success,
                lseek_Out(k.result, minix_offset),
                "lseek", minix_fd)

lseek_Message(message, pos) ==
    lseek_Sought(
        MINIXCompat_File_Seek(MINIXCompat_fd_table, S16(HostGet16(message, off_i1)),
                              Long_Signed(HostGetLong(message, off_p1)),
                              S16(HostGet16(message, off_i2)), pos),
        S16(HostGet16(message, off_i1)), HostGetLong(message, off_p1))

\* MINIXCompat_SysCall_lseek
MINIXCompat_SysCall_lseek ==
    /\ Dispatched(minix_syscall_lseek)
    /\ \E pos \in HostPositions :
           lseek_Message(MINIXCompat_Message_Swap_mess2(Trap_message), pos)
    /\ UNCHANGED <<execVars, minix_current_break, procVars>>

RECURSIVE BitAnd(_, _)
BitAnd(a, b) ==
    IF a = 0 \/ b = 0 THEN 0
    ELSE (a % 2) * (b % 2) + 2 * BitAnd(a \div 2, b \div 2)

RECURSIVE BitOr(_, _)
BitOr(a, b) ==
    IF a = 0 THEN b ELSE IF b = 0 THEN a
    ELSE (IF a % 2 = 1 \/ b % 2 = 1 THEN 1 ELSE 0) + 2 * BitOr(a \div 2, b \div 2)

\* Host and MINIX file type bits have the same values.
S_IFREG == 32768     \* 0100000
S_IFBLK == 24576     \* 0060000
S_IFDIR == 16384     \* 0040000
S_IFCHR == 8192      \* 0020000
S_IFIFO == 4096      \* 0010000

\* The mutation of the mode translation that has no character-device test.
StatModeForHostStatMode_NoCHR(host_mode) ==
    BitOr(IF BitAnd(host_mode, S_IFREG) = S_IFREG THEN S_IFREG ELSE 0,
    BitOr(IF BitAnd(host_mode, S_IFREG) = S_IFBLK THEN S_IFBLK ELSE 0,
    BitOr(IF BitAnd(host_mode, S_IFDIR) = S_IFDIR THEN S_IFDIR ELSE 0,
    BitOr(IF BitAnd(host_mode, S_IFIFO) = S_IFIFO THEN S_IFIFO ELSE 0,
          BitAnd(host_mode, 4095)))))

\* The type tests compare the masked mode with the type; the setuid, setgid,
\* sticky and permission bits (07777) are copied bit by bit.
MINIXCompat_File_MINIXStatModeForHostStatMode(host_mode) ==
    BitOr(IF BitAnd(host_mode, S_IFREG) = S_IFREG THEN S_IFREG ELSE 0,
    BitOr(IF BitAnd(host_mode, S_IFREG) = S_IFBLK THEN S_IFBLK ELSE 0,
    BitOr(IF BitAnd(host_mode, S_IFDIR) = S_IFDIR THEN S_IFDIR ELSE 0,
    BitOr(IF BitAnd(host_mode, S_IFCHR) = S_IFCHR THEN S_IFCHR ELSE 0,
    BitOr(IF BitAnd(host_mode, S_IFIFO) = S_IFIFO THEN S_IFIFO ELSE 0,
          BitAnd(host_mode, 4095))))))

\* Sizes and times of the modelled host files are below 2^31.
MINIXCompat_File_MINIXStatSizeForHostStatSize(host_size) ==
    IF host_size >= 2147483647 THEN 2147483647 ELSE host_size

\* What fstat(2) reports for the modelled host files.
HostStats ==
    { [st_dev |-> 65537, st_ino |-> <<0, 0, 1, 0>>, st_mode |-> S_IFREG + 420, st_nlink |-> 1,
       st_uid |-> 1000, st_gid |-> 100, st_rdev |-> 0, st_size |-> Len(HostData),
       st_atime |-> 1700000000, st_mtime |-> 1700000001, st_ctime |-> 1700000002],
      [st_dev |-> 65537, st_ino |-> <<0, 0, 0, 2>>, st_mode |-> S_IFDIR + 493, st_nlink |-> 2,
       st_uid |-> 0, st_gid |-> 0, st_rdev |-> 0, st_size |-> 4096,
       st_atime |-> 1700000000, st_mtime |-> 1700000001, st_ctime |-> 1700000002] }

sizeof_minix_stat == 30

\* MINIXCompat_File_MINIXStatBufForHostStatBuf, then MINIXCompat_File_StatSwap:
\* the bytes of the packed minix_stat_t in guest byte order.
MINIXStatBytes(st) ==
    BE16(st.st_dev) \o BE16(MINIXCompat_File_MINIXInodeForHostInode(st.st_ino))
        \o BE16(MINIXCompat_File_MINIXStatModeForHostStatMode(st.st_mode))
        \o BE16(st.st_nlink) \o BE16(st.st_uid) \o BE16(st.st_gid) \o BE16(st.st_rdev)
        \o BE32(MINIXCompat_File_MINIXStatSizeForHostStatSize(st.st_size))
        \o BE32(st.st_atime) \o BE32(st.st_mtime) \o BE32(st.st_ctime)

\* MINIXCompat_File_StatOpen: when fstat(2) fails the buffer is left as it was,
\* never written.
MINIXCompat_File_StatOpen(table, minix_fd, fault, st, junk) ==
    IF \/ ~MINIXCompat_fd_IsInRange(minix_fd)
       \/ ~MINIXCompat_fd_IsOpen(table, minix_fd)
    THEN [abort |-> TRUE, faulted |-> FALSE, result |-> 0, buf |-> <<>>, table |-> table]
    ELSE IF fault = "io"
    THEN [abort |-> FALSE, faulted |-> TRUE, table |-> table,
          result |-> -MINIXCompat_Errors_MINIXErrorForHostError(EIO),
          buf |-> [i \in 1..sizeof_minix_stat |-> junk]]
    ELSE [abort |-> FALSE, faulted |-> FALSE, table |-> table, result |-> 0,
          buf |-> MINIXStatBytes(st)]

\* fstat after MINIXCompat_File_StatOpen returned t: the buffer is copied to
\* the guest whether the call succeeded or not.
fstat_Stat(t, minix_fd, minix_stat_buf, fault) ==
    /\ Fault_Allowed(t, fault)
    /\ IF ~t.abort /\ ~RAM_Block_InBounds(minix_stat_buf, Long(sizeof_minix_stat))
       THEN File_Return([t EXCEPT !.abort = TRUE] @@ [host_fds |-> host_fds],
                        MINIXCompat_RAM, Trap_message, "abort", Long(0), "fstat", minix_fd)
       ELSE File_Return(t @@ [host_fds |-> host_fds],
               IF ~t.abort
               THEN MINIXCompat_RAM_Copy_Block_From_Host(MINIXCompat_RAM, minix_stat_buf, t.buf)
               ELSE MINIXCompat_RAM,
               Reply_mess1(t.result), minix_syscall_result_success_empty, Long(0),
               "fstat", minix_fd)

fstat_Message(message, fault, st, junk) ==
    fstat_Stat(MINIXCompat_File_StatOpen(MINIXCompat_fd_table, S16(HostGet16(message, off_i1)),
                                         fault, st, junk),
               S16(HostGet16(message, off_i1)), HostGetLong(message, off_p1), fault)

\* MINIXCompat_SysCall_fstat
MINIXCompat_SysCall_fstat ==
    /\ Dispatched(minix_syscall_fstat)
    /\ \E fault \in HostFaults, st \in HostStats, junk \in JunkBytes :
           fstat_Message(MINIXCompat_Message_Swap_mess1(Trap_message), fault, st, junk)
    /\ UNCHANGED <<execVars, minix_current_break, procVars>>

----------------------------------------------------------------------------
(* The guest of the file model: up to MaxCalls file calls of any kind on   *)
(* good and bad descriptors, then it opens files until the table is full.  *)

FilePath(c) == <<47, c, 0>>

Open3(c, flags) ==
    Setup(minix_syscall_func_both, minix_task_fs, MsgAddr,
          Mess3(minix_syscall_open, 3, flags, Long(PathAddr)), FilePath(c), <<>>)

Open1(c, flags, mode) ==
    Setup(minix_syscall_func_both, minix_task_fs, MsgAddr,
          Mess1(minix_syscall_open, 3, flags, mode, Long(PathAddr), Long(0), Long(0)),
          FilePath(c), <<>>)

Creat(c, mode) ==
    Setup(minix_syscall_func_both, minix_task_fs, MsgAddr,
          Mess3(minix_syscall_creat, 3, mode, Long(PathAddr)), FilePath(c), <<>>)

\* read, write, close, fstat (whence and offset 0) and lseek on descriptor fd.
FdCall(sc, fd, i2, l) ==
    Setup(minix_syscall_func_both, minix_task_fs, MsgAddr,
          IF sc = minix_syscall_lseek
          THEN Mess2(sc, fd, i2, 0, l, Long(0), Long(0))
          ELSE Mess1(sc, fd, i2, 0, Long(BufAddr), Long(0), Long(0)),
          <<>>, <<>>)

FDSetups ==
    { Open3(102, 0), Open3(100, 0), Open3(120, 0), Open3(117, 0),
      Open1(103, minix_O_CREAT + minix_O_WRONLY, 420),
      Creat(102, 420), Creat(100, 420) }
    \cup { FdCall(minix_syscall_close, fd, 0, Long(0)) : fd \in {2, 3, MINIXCompat_fd_count, -1} }
    \cup { FdCall(minix_syscall_read, 3, 16, Long(0)), FdCall(minix_syscall_read, 0, 2, Long(0)),
           FdCall(minix_syscall_read, 4, 2, Long(0)),
           FdCall(minix_syscall_read, MINIXCompat_fd_count, 2, Long(0)) }
    \cup { FdCall(minix_syscall_write, fd, 2, Long(0)) : fd \in {1, 3, 4} }
    \cup { FdCall(minix_syscall_lseek, 3, minix_SEEK_SET, Long(16)),
           FdCall(minix_syscall_lseek, 3, minix_SEEK_END, Long(0)),
           FdCall(minix_syscall_lseek, 3, minix_SEEK_CUR, Long_Max),
           FdCall(minix_syscall_lseek, 1, minix_SEEK_SET, Long(0)),
           FdCall(minix_syscall_lseek, -1, minix_SEEK_SET, Long(0)) }
    \cup { FdCall(minix_syscall_fstat, fd, 0, Long(0)) : fd \in {3, 4, MINIXCompat_fd_count} }

Guest_FD == GuestPrepare(FDSetups)

\* The guest has made its MaxCalls calls and opens /f again and again.
Guest_Fill ==
    /\ pc = "quantum"
    /\ ncalls >= MaxCalls
    /\ ncalls < MaxCalls + MINIXCompat_fd_count
    /\ Guest_Trap({ Open3(102, 0) })

NextFD ==
    \/ Main_Started
    \/ Main_Ready
    \/ Main_Running
    \/ Quantum_End
    \/ Guest_FD
    \/ Guest_Fill
    \/ MINIXCompat_SysCall_open
    \/ MINIXCompat_SysCall_creat
    \/ MINIXCompat_SysCall_close
    \/ MINIXCompat_SysCall_read
    \/ MINIXCompat_SysCall_write
    \/ MINIXCompat_SysCall_lseek
    \/ MINIXCompat_SysCall_fstat

SpecFD == Init /\ [][NextFD]_vars

----------------------------------------------------------------------------
(* Properties of the file model.                                           *)

Slot_Empty(i) ==
    MINIXCompat_fd_table[i].host_fd = -1 /\ MINIXCompat_fd_table[i].minix_fd = -1
Slot_Open(i) ==
    MINIXCompat_fd_table[i].host_fd >= 0 /\ MINIXCompat_fd_table[i].minix_fd = i

Open_Fails ==
    /\ Dispatched(minix_syscall_open) \/ Dispatched(minix_syscall_creat)
    /\ \/ S16(Get16(last'.reply, off_m_type)) < 0
       \/ host_faults' # host_faults
       \/ pc' = "aborted"

\* C4: whenever open fails at any step (no free slot, the host open fails,
\* the stat after it fails, caching a directory fails) the reply carries a
\* negative MINIX errno, the host descriptor obtained is closed again, the
\* table is what it was before the call, and the emulator does not abort.
C4_FailedOpenLeavesNoTrace ==
    [][ Open_Fails =>
            /\ pc' = "quantum"
            /\ last'.op \in {"open", "creat"}
            /\ S16(Get16(last'.reply, off_m_type)) < 0
            /\ MINIXCompat_fd_table' = MINIXCompat_fd_table
            /\ host_fds' = host_fds
      ]_vars

\* The descriptor a file call names, as the guest wrote it in the message.
Call_fd == S16(Get16(Trap_message, off_i1))

\* A read, write, close, lseek or fstat names a descriptor outside the
\* table or an empty slot.
BadDescriptorCall ==
    /\ \E sc \in {minix_syscall_read, minix_syscall_write, minix_syscall_close,
                  minix_syscall_lseek, minix_syscall_fstat} : Dispatched(sc)
    /\ \/ Call_fd < 0
       \/ Call_fd >= 20
       \/ Slot_Empty(Call_fd)

\* C5: a read, write, close, lseek or fstat whose descriptor is outside
\* [0, 20) or names an empty slot is answered with a negative MINIX errno in
\* m_type; the emulator keeps running and the table is unchanged.
C5_BadDescriptorIsGuestError ==
    [][ BadDescriptorCall =>
            /\ pc' = "quantum"
            /\ S16(Get16(last'.reply, off_m_type)) < 0
            /\ MINIXCompat_fd_table' = MINIXCompat_fd_table
      ]_vars

----------------------------------------------------------------------------
(* Processes: fork, wait, getpid.  The model follows one emulator process; *)
(* when the host fork succeeds it goes on as the parent or as the child,   *)
(* which starts with a copy of everything the parent had.                  *)

\* Linear search of the process table by host process ID; -1 if there is none.
MINIXCompat_Processes_MINIXProcessForHostProcess(table, size, host_pid) ==
    IF \E i \in 0..(size - 1) : table[i].host_pid = host_pid
    THEN table[CHOOSE i \in 0..(size - 1) :
                    /\ table[i].host_pid = host_pid
                    /\ \A j \in 0..(i - 1) : table[j].host_pid # host_pid].minix_pid
    ELSE -1

\* The first entry from 2 on whose host_pid is 0; without one the table is
\* reallocated half again as large and the first new entry is returned.
MINIXCompat_Processes_NextFreeTableEntry(table, size) ==
    IF \E i \in 2..(size - 1) : table[i].host_pid = 0
    THEN [entry |-> CHOOSE i \in 2..(size - 1) :
                        /\ table[i].host_pid = 0
                        /\ \A j \in 2..(i - 1) : table[j].host_pid # 0,
          table |-> table, size |-> size]
    ELSE [entry |-> size,
          table |-> [i \in 0..(size + (size \div 2) - 1) |->
                        IF i < size THEN table[i] ELSE [minix_pid |-> 0, host_pid |-> 0]],
          size  |-> size + (size \div 2)]

\* The IDs getpid reports, which are also what the two statics hold afterwards.
MINIXCompat_Processes_GetProcessIDs(table, self_pid, self_ppid) ==
    IF self_pid = 0 /\ self_ppid = 0
    THEN [minix_pid |-> table[0].minix_pid, minix_ppid |-> table[1].minix_pid]
    ELSE [minix_pid |-> self_pid, minix_ppid |-> self_ppid]

\* What the host's fork() does: it fails, or it returns in the parent, or in
\* the child.
HostForks == {"fail", "parent", "child"}

\* The mutation of the failed fork that leaves the counter incremented.
fork_Failed_NoRollback(n, next_pid) ==
    [result   |-> -MINIXCompat_Errors_MINIXErrorForHostError(EAGAIN),
     table    |-> n.table,
     size     |-> n.size,
     next_pid |-> next_pid,
     host     |-> host]

\* new_host_process == -1: the counter is put back.
fork_Failed(n, next_pid) ==
    [result   |-> -MINIXCompat_Errors_MINIXErrorForHostError(EAGAIN),
     table    |-> n.table,
     size     |-> n.size,
     next_pid |-> S16(next_pid - 1),
     host     |-> host]

\* The parent fills in the new entry and returns the child's MINIX process ID.
fork_Parent(n, new_minix_process, next_pid, new_host_process) ==
    [result   |-> new_minix_process,
     table    |-> [n.table EXCEPT ![n.entry] =
                        [minix_pid |-> new_minix_process, host_pid |-> new_host_process]],
     size     |-> n.size,
     next_pid |-> next_pid,
     host     |-> [host EXCEPT !.children = @ \cup {new_host_process},
                               !.fresh = IF new_host_process >= @ THEN new_host_process + 1
                                         ELSE @]]

\* The child moves its parent's parent to the new entry, its parent to entry
\* 1 and itself to entry 0, and returns 0.
fork_Child(n, new_minix_process, next_pid, new_host_process) ==
    [result   |-> 0,
     table    |-> [n.table EXCEPT ![n.entry] = n.table[1],
                                 ![1] = n.table[0],
                                 ![0] = [minix_pid |-> new_minix_process,
                                         host_pid  |-> new_host_process]],
     size     |-> n.size,
     next_pid |-> next_pid,
     host     |-> [pid |-> new_host_process, ppid |-> host.pid, children |-> {},
                   zombies |-> {},
                   fresh |-> IF new_host_process >= host.fresh THEN new_host_process + 1
                             ELSE host.fresh]]

\* new_minix_process = minix_next_pid++, a minix_pid_t (int16_t), then fork().
fork_Forked(n, new_minix_process, outcome, new_host_process) ==
    CASE outcome = "fail"   -> fork_Failed(n, S16(new_minix_process + 1))
      [] outcome = "parent" -> fork_Parent(n, new_minix_process, S16(new_minix_process + 1),
                                           new_host_process)
      [] outcome = "child"  -> fork_Child(n, new_minix_process, S16(new_minix_process + 1),
                                          new_host_process)

MINIXCompat_Processes_fork(table, size, next_pid, outcome, new_host_process) ==
    LET n == MINIXCompat_Processes_NextFreeTableEntry(table, size)
    IN  fork_Forked(n, next_pid, outcome, new_host_process)

\* The process IDs the host may give the next child: one that no process
\* has had yet, or that of this process's latest child once it has been
\* reaped (a process ID is free again when its process has been waited for).
HostNewPids ==
    {host.fresh} \cup
        { p \in {host.fresh - 1} :
            /\ p # host.pid
            /\ p \notin host.children
            /\ \A z \in host.zombies : z.pid # p
            /\ \E i \in 2..(MINIXCompat_ProcessTable_Size - 1) :
                    MINIXCompat_ProcessTable[i].host_pid = p }

\* The cleared reply with m_type = minix_pid and m2_i1 = minix_stat, swapped as mess2.
Reply_mess2(minix_pid, minix_stat) ==
    MINIXCompat_Message_Swap_mess2(
        HostPut16(HostPut16(MINIXCompat_Message_Clear, off_m_type, minix_pid),
                  off_i1, minix_stat))

MINIXCompat_SysCall_fork ==
    /\ Dispatched(minix_syscall_fork)
    /\ \E outcome \in HostForks, new_host_process \in HostNewPids :
        /\ outcome = "fail" => (host_faults < MaxHostFaults /\ new_host_process = host.fresh)
        /\ host_faults' = IF outcome = "fail" THEN host_faults + 1 ELSE host_faults
        /\ \E f \in { MINIXCompat_Processes_fork(MINIXCompat_ProcessTable,
                        MINIXCompat_ProcessTable_Size, minix_next_pid, outcome,
                        new_host_process) } :
               /\ MINIXCompat_ProcessTable' = f.table
               /\ MINIXCompat_ProcessTable_Size' = f.size
               /\ minix_next_pid' = f.next_pid
               /\ host' = f.host
               /\ Trap_Return(MINIXCompat_RAM, Reply_mess2(f.result, 0),
                              minix_syscall_result_success_empty, Long(0), "fork", f.result)
    /\ pc' = "quantum"
    /\ UNCHANGED <<execVars, minix_current_break, MINIXCompat_fd_table, host_fds,
                   minix_self_pid, minix_self_ppid, sigVars, calc>>

MINIXCompat_SysCall_getpid ==
    /\ Dispatched(minix_syscall_getpid)
    /\ \E ids \in { MINIXCompat_Processes_GetProcessIDs(MINIXCompat_ProcessTable,
                        minix_self_pid, minix_self_ppid) } :
           /\ minix_self_pid' = ids.minix_pid
           /\ minix_self_ppid' = ids.minix_ppid
           /\ Trap_Return(MINIXCompat_RAM,
                    MINIXCompat_Message_Swap_mess1(
                        HostPut16(HostPut16(MINIXCompat_Message_Clear, off_m_type,
                                            ids.minix_pid), off_i1, ids.minix_ppid)),
                    minix_syscall_result_success_empty, Long(0), "getpid", ids.minix_pid)
    /\ pc' = "quantum"
    /\ UNCHANGED <<execVars, minix_current_break, fdVars, MINIXCompat_ProcessTable,
                   MINIXCompat_ProcessTable_Size, minix_next_pid, sigVars, calc,
                   host>>

\* How a child of this process ends: exit(42), exit(0), or killed by signal 9.
ChildEnds == { [how |-> "exited", value |-> 42], [how |-> "exited", value |-> 0],
               [how |-> "signaled", value |-> 9] }

\* A status conversion that puts every value in the high byte.
MINIXStatForHostStat_HighByte(host_stat) == S16(host_stat.value * 256)

\* WIFEXITED, WIFSTOPPED, WIFSIGNALED, in the order the code tests them.
MINIXCompat_Processes_MINIXStatForHostStat(host_stat) ==
    CASE host_stat.how = "exited"   -> host_stat.value
      [] host_stat.how = "stopped"  -> S16(host_stat.value * 256 + 127)
      [] host_stat.how = "signaled" -> S16(host_stat.value * 256)
      [] OTHER                      -> 9

\* What the host's wait() can return now: an exited child, or ECHILD when
\* there is no child at all; with only running children it blocks.
HostWaits ==
    IF host.zombies # {} THEN { [host_pid |-> z.pid, host_stat |-> z.stat] : z \in host.zombies }
    ELSE IF host.children = {} THEN { [host_pid |-> -1, host_stat |-> ECHILD] }
    ELSE {}

MINIXCompat_Processes_wait(table, size, w) ==
    IF w.host_pid = -1
    THEN [minix_pid  |-> -MINIXCompat_Errors_MINIXErrorForHostError(w.host_stat),
          minix_stat |-> 0]
    ELSE [minix_pid  |-> MINIXCompat_Processes_MINIXProcessForHostProcess(table, size,
                                                                          w.host_pid),
          minix_stat |-> MINIXCompat_Processes_MINIXStatForHostStat(w.host_stat)]

MINIXCompat_SysCall_wait ==
    /\ Dispatched(minix_syscall_wait)
    /\ \E w \in HostWaits :
        /\ host' = [host EXCEPT !.zombies = { z \in @ : z.pid # w.host_pid }]
        /\ \E r \in { MINIXCompat_Processes_wait(MINIXCompat_ProcessTable,
                                               MINIXCompat_ProcessTable_Size, w) } :
               Trap_Return(MINIXCompat_RAM, Reply_mess2(r.minix_pid, r.minix_stat),
                           minix_syscall_result_success_empty, Long(0), "wait", r.minix_pid)
    /\ pc' = "quantum"
    /\ UNCHANGED <<execVars, minix_current_break, fdVars, MINIXCompat_ProcessTable,
                   MINIXCompat_ProcessTable_Size, minix_self_pid, minix_self_ppid,
                   minix_next_pid, sigVars, calc>>

\* A child of this process ends, while the guest runs or waits in a trap.
Host_ChildEnds ==
    /\ pc \in {"quantum", "trap"}
    /\ \E c \in host.children, e \in ChildEnds :
        host' = [host EXCEPT !.children = @ \ {c},
                             !.zombies = @ \cup {[pid |-> c, stat |-> e]}]
    /\ UNCHANGED <<pc, execVars, MINIXCompat_RAM, reg, minix_current_break, fdVars,
                   MINIXCompat_ProcessTable, MINIXCompat_ProcessTable_Size, minix_self_pid,
                   minix_self_ppid, minix_next_pid, sigVars, calc, last, ncalls>>

----------------------------------------------------------------------------
(* The guest of the process runs: fork, getpid, wait and exit.             *)

ProcCall(sc, i1) ==
    Setup(minix_syscall_func_both, minix_task_mm, MsgAddr, NoPointers(sc, i1), <<>>, <<>>)

ProcSetups ==
    { ProcCall(minix_syscall_fork, 0), ProcCall(minix_syscall_getpid, 0),
      ProcCall(minix_syscall_wait, 0), ProcCall(minix_syscall_exit, 42) }

Guest_Proc == GuestPrepare(ProcSetups)

NextProc ==
    \/ Main_Started
    \/ Main_Ready
    \/ Main_Running
    \/ Main_Finished
    \/ Quantum_End
    \/ Guest_Proc
    \/ Host_ChildEnds
    \/ MINIXCompat_SysCall_exit
    \/ MINIXCompat_SysCall_fork
    \/ MINIXCompat_SysCall_getpid
    \/ MINIXCompat_SysCall_wait

SpecProc == Init /\ [][NextProc]_vars

----------------------------------------------------------------------------
(* A process that has been forking for a long time.                        *)

\* Forks the initial process has behind it when the long run is taken up.
LateForks == 32759

\* The size the table has grown to when n children have been entered.
RECURSIVE TableSizeFor(_, _)
TableSizeFor(size, n) ==
    IF n + 2 <= size THEN size ELSE TableSizeFor(size + (size \div 2), n)

\* The process table of the initial process after n successful forks: the
\* k-th child has MINIX process ID 7 + k and sits in entry k + 1.
ForkedTable(n) ==
    [i \in 0..(TableSizeFor(32, n) - 1) |->
        IF i <= 1 \/ i > n + 1 THEN MINIXCompat_Processes_Initialize[IF i <= 1 THEN i ELSE 2]
        ELSE [minix_pid |-> 6 + i, host_pid |-> HostSelf.pid + (i - 1)]]

\* The state of the emulator that runs tool, n >= 1, when its guest has done
\* nothing but fork n times, each time waiting for the child, which called
\* exit(42), and the reply to the last wait has just been delivered.
Forked(n, tool) ==
    /\ pc = "quantum"
    /\ MINIXCompat_State = "Running"
    /\ MINIXCompat_exit_status = 0
    /\ state_change = <<"Ready", "Running">>
    /\ MINIXCompat_RAM =
            [vectors |-> BE32(MINIXCompat_Stack_Base) \o BE32(MINIXCompat_Executable_Base),
             exec    |-> MINIXCompat_Processes_LoadTool(tool).buf,
             stack   |-> MINIXCompat_Arguments_Initialize(tool),
             msg     |-> Reply_mess2(7 + n, 42),
             path    |-> <<>>, snap |-> <<>>, buf |-> <<>>]
    /\ reg = [D0 |-> Long(0), D1 |-> Long(minix_task_mm), A0 |-> Long(MsgAddr)]
    /\ minix_current_break = Long(0)
    /\ MINIXCompat_fd_table = MINIXCompat_Filesystem_Initialize
    /\ host_fds = {0, 1, 2}
    /\ host_faults = 0
    /\ MINIXCompat_ProcessTable = ForkedTable(n)
    /\ MINIXCompat_ProcessTable_Size = TableSizeFor(32, n)
    /\ minix_self_pid = 0
    /\ minix_self_ppid = 0
    /\ minix_next_pid = 8 + n
    /\ minix_signal_handlers = [sig \in 0..15 |-> Long(0)]
    /\ host_signal_handlers = [sig \in HostSignals |-> "SIG_DFL"]
    /\ minix_current_signal = "none"
    /\ calc = NoCalc
    /\ host = [pid |-> HostSelf.pid, ppid |-> HostSelf.ppid, children |-> {},
               zombies |-> {}, fresh |-> HostSelf.pid + n + 1]
    /\ last = [op |-> "wait", func |-> minix_syscall_func_both, arg |-> 7 + n,
               result |-> minix_syscall_result_success_empty, out |-> Long(0),
               reply |-> Reply_mess2(7 + n, 42)]
    /\ ncalls = 2 * n

InitLate == Forked(LateForks, <<47, 116>>)

\* The guest goes on forking, and asks who it is.
Guest_Late ==
    /\ pc = "quantum"
    /\ ncalls < 2 * LateForks + MaxCalls
    /\ Guest_Trap({ ProcCall(minix_syscall_fork, 0), ProcCall(minix_syscall_getpid, 0) })

NextLate ==
    \/ Main_Running
    \/ Quantum_End
    \/ Guest_Late
    \/ MINIXCompat_SysCall_fork
    \/ MINIXCompat_SysCall_getpid

SpecLate == InitLate /\ [][NextLate]_vars

----------------------------------------------------------------------------
(* Properties of the process table.                                        *)

\* The state Forked(n, tool) describes is the one the run from Init gets to.
Forked_AsRun ==
    \A n \in 1..MaxCalls :
        ( /\ pc = "quantum"
          /\ host.pid = HostSelf.pid
          /\ host.children = {} /\ host.zombies = {}
          /\ host.fresh = HostSelf.pid + n + 1
          /\ host_faults = 0
          /\ ncalls = 2 * n
          /\ minix_next_pid = 8 + n
          /\ minix_self_pid = 0
          /\ last.op = "wait" /\ Get16(last.reply, off_i1) = 42
          /\ S16(Get16(last.reply, off_m_type)) = 7 + n )
        => Forked(n, <<47, 116>>)

Forked_AsRun_Reached ==
    pc = "quantum" /\ ncalls = 2 /\ minix_next_pid = 9 /\ last.op = "wait"
        /\ Forked(1, <<47, 116>>)

\* The step in which the trap for system call sc is handled.
Handled(sc) == Dispatched(sc) /\ ncalls' = ncalls + 1

\* A fork step after which there is one more process.
Fork_Succeeds == Handled(minix_syscall_fork) /\ host' # host

\* The MINIX process ID that step allocated: the parent is told it, the child
\* finds it in its self entry.
Fork_NewPid ==
    IF host'.pid = host.pid THEN S16(Get16(last'.reply, off_m_type))
    ELSE MINIXCompat_ProcessTable'[0].minix_pid

\* The MINIX process IDs in the occupied entries, and those of them that
\* earlier forks of this process returned: its children's.
OccupiedPids ==
    { MINIXCompat_ProcessTable[i].minix_pid :
        i \in { j \in 0..(MINIXCompat_ProcessTable_Size - 1) :
                    j <= 1 \/ MINIXCompat_ProcessTable[j].host_pid # 0 } }
ReturnedPids ==
    { MINIXCompat_ProcessTable[i].minix_pid :
        i \in { j \in 2..(MINIXCompat_ProcessTable_Size - 1) :
                    MINIXCompat_ProcessTable[j].host_pid > host.pid } }

\* C6: in each process the MINIX process IDs that successful forks return
\* are strictly increasing, and a new one is never 0, 1 or 2 nor the ID held
\* in an occupied entry of the process table, however many forks there were.
C6_ForkPidsIncreaseAndAreFresh ==
    [][ Fork_Succeeds =>
            /\ Fork_NewPid \notin {0, 1, 2}
            /\ Fork_NewPid \notin OccupiedPids
            /\ \A earlier \in ReturnedPids : earlier < Fork_NewPid
      ]_vars

\* The first fork call of the initial process, when the host fork succeeds.
FirstFork ==
    /\ Fork_Succeeds
    /\ host.pid = HostSelf.pid
    /\ host.fresh = HostSelf.pid + 1
    /\ host_faults' = host_faults
\* The first child: the entry its fork took was entry 2, where it keeps its
\* parent's parent.
FirstChild ==
    /\ host.pid = HostSelf.pid + 1
    /\ MINIXCompat_ProcessTable[2].host_pid = HostSelf.ppid

\* The parent's wait that reaps the first child, which called exit(42).
FirstChild_Reaped ==
    /\ Handled(minix_syscall_wait)
    /\ host.pid = HostSelf.pid
    /\ host.zombies \ host'.zombies =
            { [pid |-> HostSelf.pid + 1, stat |-> [how |-> "exited", value |-> 42]] }
    /\ \A i \in 3..(MINIXCompat_ProcessTable_Size - 1) :
            MINIXCompat_ProcessTable[i].host_pid # HostSelf.pid + 1

Reply_pid  == S16(Get16(last'.reply, off_m_type))
Reply_i1   == S16(Get16(last'.reply, off_i1))

C8_GetpidReportsTableEntries ==
    [][ Handled(minix_syscall_getpid) =>
            /\ Reply_pid = MINIXCompat_ProcessTable[0].minix_pid
            /\ Reply_i1 = MINIXCompat_ProcessTable[1].minix_pid
      ]_vars


----------------------------------------------------------------------------
(* Properties of exit.                                                     *)

\* The status the guest passes to the exit it is trapping with.
Exit_Status == S16(Get16(Trap_message, off_i1))

\* C11: once an exit(s) call is processed the execution state is Finished
\* and stays Finished, no later step of the run ends it other than by the
\* run loop terminating when the quantum is over (no further quantum is
\* started), and the exit status main returns is that of the most recent
\* exit call.
C11_ExitIsFinal ==
    [][ /\ Handled(minix_syscall_exit) =>
            /\ MINIXCompat_State' = "Finished"
            /\ MINIXCompat_exit_status' = Exit_Status
        /\ MINIXCompat_State = "Finished" =>
            /\ MINIXCompat_State' = "Finished"
            /\ pc' # "aborted"
            /\ pc = "loop" => pc' = "exited"
            /\ ~Handled(minix_syscall_exit) =>
                    MINIXCompat_exit_status' = MINIXCompat_exit_status
      ]_vars


----------------------------------------------------------------------------
(* The guest RAM accessors of MINIXCompat_Emulation.c, applied to one      *)
(* access each.  An access is the accessor, the address and the number of  *)
(* bytes it reads or writes from that address on.                          *)

\* The value of a Long below 2^31.
Long_Int(a) == a[1] * 65536 + a[2]

\* Bytes the 8, 16 and 32 bit accessors dereference.
AccessorWidth ==
    [Read_8 |-> 1, Read_16 |-> 2, Read_32 |-> 4, Write_8 |-> 1, Write_16 |-> 2, Write_32 |-> 4]

BlockAccessors == { "Copy_Block_From_Host", "Copy_Block_To_Host" }

\* The assertions of an accessor hold for the access.
MINIXCompat_RAM_Accepts(accessor, m68k_address, size) ==
    IF accessor \in BlockAccessors
    THEN RAM_Block_InBounds(m68k_address, size)
    ELSE Long_Less(m68k_address, Long(MINIXCompat_RAM_Size))

\* Every byte at m68k_address .. m68k_address + size - 1 is a byte of the array.
RAM_Access_Inside(m68k_address, size) ==
    \/ size = Long(0)
    \/ /\ Long_Less(m68k_address, Long(MINIXCompat_RAM_Size))
       /\ Long_LessEq(size, Long(MINIXCompat_RAM_Size - Long_Int(m68k_address)))

\* Addresses and block lengths of the modelled accesses: around the end of
\* the array and around 2^32.
RamAddrs ==
    { Long(0), Long(MINIXCompat_Executable_Base), Long(MINIXCompat_RAM_Size - 4),
      Long(MINIXCompat_RAM_Size - 3), Long(MINIXCompat_RAM_Size - 2),
      Long(MINIXCompat_RAM_Size - 1), Long(MINIXCompat_RAM_Size),
      Long(MINIXCompat_RAM_Size + 1), Long_Max }
RamBlockSizes ==
    { Long(0), Long(1), Long(2), Long(4), Long(minix_message_size),
      Long(MINIXCompat_RAM_Size), Long(MINIXCompat_RAM_Size + 1), << 65535, 65528 >>, Long_Max }

RamAccesses ==
    { << a, m, Long(AccessorWidth[a]) >> : a \in DOMAIN AccessorWidth, m \in RamAddrs }
        \cup (BlockAccessors \X RamAddrs \X RamBlockSizes)

InitRAM ==
    /\ Constructed
    /\ \E access \in RamAccesses : calc = [fn |-> "RAM", in |-> access, out |-> "called"]

\* The accessor is called: its assertion lets the access through or aborts.
RAM_Access ==
    /\ calc.fn = "RAM" /\ calc.out = "called"
    /\ calc' = [calc EXCEPT !.out =
            IF MINIXCompat_RAM_Accepts(calc.in[1], calc.in[2], calc.in[3])
            THEN "accepted" ELSE "asserted"]
    /\ UNCHANGED progVars

NextRAM == RAM_Access

SpecRAM == InitRAM /\ [][NextRAM]_vars

\* C12: every access an accessor lets through (1, 2 or 4 bytes for the 8,
\* 16 and 32 bit reads and writes, the block length for the block copies)
\* satisfies addr + size <= 0x01000000, so it touches no byte at an index
\* of 0x01000000 or above.
C12_AcceptedAccessInsideRAM ==
    (calc.fn = "RAM" /\ calc.out = "accepted") =>
        RAM_Access_Inside(calc.in[2], calc.in[3])


----------------------------------------------------------------------------
(* Properties of reading a directory.                                      *)

\* The byte count a read names, as the guest wrote it in the message.
Call_nbytes == S16(Get16(Trap_message, off_i2))

\* The step handles a read of a positive number of bytes on a descriptor
\* that is open on a directory.
Dir_Read_Call ==
    /\ Handled(minix_syscall_read)
    /\ Call_fd \in 0..(MINIXCompat_fd_count - 1)
    /\ Slot_Open(Call_fd)
    /\ MINIXCompat_fd_table[Call_fd].f_type = "f_directory"
    /\ Call_nbytes > 0

\* C13: a read of n bytes on an open directory descriptor with cursor c
\* either returns n, delivers the n cached bytes at [c, c+n) and moves the
\* cursor to c+n (c+n within the cached size), or fails with -5 (the MINIX
\* I/O error), leaves the cursor at c and copies nothing into the guest's
\* buffer; it never returns a positive count other than n.
C13_DirReadAllOrError ==
    [][ Dir_Read_Call =>
            LET entry == MINIXCompat_fd_table[Call_fd]
                c     == entry.dir_offset
                n     == Call_nbytes
                m     == S16(Get16(last'.reply, off_m_type))
            IN  \/ /\ m = n
                   /\ c + n <= entry.dir_count * sizeof_minix_dirent
                   /\ MINIXCompat_fd_table'[Call_fd].dir_offset = c + n
                   /\ SubSeq(MINIXCompat_RAM'.buf, 1, n) = DirCacheBytes(entry, c, n)
                \/ /\ m = -minix_EIO
                   /\ MINIXCompat_fd_table'[Call_fd].dir_offset = c
                   /\ MINIXCompat_RAM'.buf = MINIXCompat_RAM.buf
      ]_vars


----------------------------------------------------------------------------
(* A process that forks and waits, on a host that hands process IDs out    *)
(* again.                                                                  *)

\* Traps the guest of this run issues.
MaxReapCalls == 4

Guest_Reap ==
    /\ pc = "quantum"
    /\ ncalls < MaxReapCalls
    /\ Guest_Trap({ ProcCall(minix_syscall_fork, 0), ProcCall(minix_syscall_wait, 0) })

NextReap ==
    \/ Main_Started
    \/ Main_Ready
    \/ Main_Running
    \/ Quantum_End
    \/ Guest_Reap
    \/ Host_ChildEnds
    \/ MINIXCompat_SysCall_fork
    \/ MINIXCompat_SysCall_wait

SpecReap == Init /\ [][NextReap]_vars

\* The MINIX process ID fork returned for the child that now has host
\* process ID p: fork takes the first entry never used, so it is in the last
\* entry that holds p.
Fork_Returned(p) ==
    MINIXCompat_ProcessTable[
        CHOOSE i \in 2..(MINIXCompat_ProcessTable_Size - 1) :
            /\ MINIXCompat_ProcessTable[i].host_pid = p
            /\ \A j \in (i + 1)..(MINIXCompat_ProcessTable_Size - 1) :
                    MINIXCompat_ProcessTable[j].host_pid # p].minix_pid

\* C14: the wait that reaps a child returns the MINIX process ID that fork
\* returned for that child, over any sequence of forks and waits, also when
\* the host has given the child the process ID of a child reaped before;
\* wait returns a negative value only when the host's wait failed.
C14_WaitReturnsForkedPid ==
    [][ Handled(minix_syscall_wait) =>
            IF host'.zombies = host.zombies
            THEN Reply_pid < 0
            ELSE \A z \in host.zombies \ host'.zombies : Reply_pid = Fork_Returned(z.pid)
      ]_vars


----------------------------------------------------------------------------
(* Signals: the signal system call, and host signals arriving.             *)

minix_SIG_DFL == Long(0)
minix_SIG_IGN == Long(1)
minix_SIG_ERR == Long_Max

MINIXCompat_Processes_HostSignalHandlerForMINIXSignalHandler(minix_handler) ==
    CASE minix_handler = minix_SIG_DFL -> "MINIXCompat_Processes_SignalHandler_DFL"
      [] minix_handler = minix_SIG_IGN -> "SIG_IGN"
      [] minix_handler = minix_SIG_ERR -> "SIG_ERR"
      [] OTHER                         -> "MINIXCompat_Processes_SignalHandler_Other"

\* The host's signal(2): SIGKILL cannot be rebound; SIG_ERR as the handler is
\* refused by some hosts (accepts = FALSE) and installed as it is by others.
\* A refusal returns SIG_ERR and leaves the disposition as it was.
Host_signal(handlers, host_signal, host_handler, accepts) ==
    IF host_signal = "SIGKILL" \/ (host_handler = "SIG_ERR" /\ ~accepts)
    THEN [old |-> "SIG_ERR", handlers |-> handlers]
    ELSE [old |-> handlers[host_signal],
          handlers |-> [handlers EXCEPT ![host_signal] = host_handler]]

\* MINIXCompat_Processes_signal for a signal number that passes the
\* assertion: the new table, the host's dispositions and the handler returned.
MINIXCompat_Processes_signal(table, handlers, minix_signal, minix_handler, accepts) ==
    LET old_minix_handler == table[minix_signal - 1]
        host_handler ==
            MINIXCompat_Processes_HostSignalHandlerForMINIXSignalHandler(minix_handler)
        h == Host_signal(handlers,
                         MINIXCompat_Processes_HostSignalForMINIXSignal[minix_signal],
                         host_handler, accepts)
    IN  [table        |-> [table EXCEPT ![minix_signal - 1] = minix_handler],
         handlers     |-> h.handlers,
         host_handler |-> host_handler,
         old_handler  |-> CASE h.old = "SIG_DFL" -> minix_SIG_DFL
                            [] h.old = "SIG_IGN" -> minix_SIG_IGN
                            [] h.old = "SIG_ERR" -> minix_SIG_ERR
                            [] OTHER             -> old_minix_handler]

\* signal after the message has been swapped as mess6.
signal_Message(minix_signal, new_handler, accepts) ==
    IF minix_signal > 0 /\ minix_signal <= 16
    THEN \E r \in { MINIXCompat_Processes_signal(minix_signal_handlers, host_signal_handlers,
                                                  minix_signal, new_handler, accepts) } :
            /\ accepts => r.host_handler = "SIG_ERR"
            /\ minix_signal_handlers' = r.table
            /\ host_signal_handlers' = r.handlers
            /\ Trap_Return(MINIXCompat_RAM,
                           MINIXCompat_Message_Swap_mess2(
                               HostPut16(MINIXCompat_Message_Clear, off_m_type, 0)),
                           minix_syscall_result_success, r.old_handler, "signal",
                           << minix_signal, r.host_handler >>)
            /\ pc' = "quantum"
    ELSE /\ ~accepts
         /\ Trap_Abort(MINIXCompat_RAM, "signal", << minix_signal, "none" >>)
         /\ pc' = "aborted"
         /\ UNCHANGED <<minix_signal_handlers, host_signal_handlers>>

\* MINIXCompat_SysCall_signal
MINIXCompat_SysCall_signal ==
    /\ Dispatched(minix_syscall_sig)
    /\ \E accepts \in BOOLEAN :
        LET message == MINIXCompat_Message_Swap_mess6(Trap_message)
        IN  signal_Message(S16(HostGet16(message, off_i1)), HostGetLong(message, off_p2),
                           accepts)
    /\ UNCHANGED <<execVars, minix_current_break, fdVars, MINIXCompat_ProcessTable,
                   MINIXCompat_ProcessTable_Size, minix_self_pid, minix_self_ppid,
                   minix_next_pid, minix_current_signal, calc, host>>

\* Host signals that arrive in the modelled runs.
ArrivingSignals == { "SIGINT", "SIGTERM" }

\* A host signal arrives: in the run loop, while the guest runs, or in the
\* middle of a system call.  With the default disposition it ends the
\* process; ignored, nothing happens; a handler of the emulator stores the
\* signal in minix_current_signal; a handler of SIG_ERR is a jump to no code.
Host_Signal ==
    /\ pc \in {"loop", "quantum", "trap"}
    /\ \E sig \in ArrivingSignals :
        /\ host_signal_handlers[sig] # "SIG_IGN"
        /\ IF host_signal_handlers[sig] \in {"SIG_DFL", "SIG_ERR"}
           THEN pc' = "killed" /\ UNCHANGED minix_current_signal
           ELSE /\ minix_current_signal # sig
                /\ minix_current_signal' = sig
                /\ UNCHANGED pc
    /\ UNCHANGED <<execVars, MINIXCompat_RAM, reg, minix_current_break, fdVars,
                   MINIXCompat_ProcessTable, MINIXCompat_ProcessTable_Size, minix_self_pid,
                   minix_self_ppid, minix_next_pid, minix_signal_handlers,
                   host_signal_handlers, calc, host, last, ncalls>>

\* Traps the guest of the signal runs issues.
MaxSigCalls == 3

\* signal(sig, handler) as the guest library sends it.
SigCall(sig, handler) ==
    Setup(minix_syscall_func_both, minix_task_mm, MsgAddr,
          PutLong(Put16(Put16(Zeros(minix_message_size), off_m_type, minix_syscall_sig),
                        off_i1, sig), off_p2, handler),
          <<>>, <<>>)

SigSetups ==
    { SigCall(sig, handler) :
        sig \in {2, 9, 15},
        handler \in { minix_SIG_DFL, minix_SIG_IGN, minix_SIG_ERR, Long(8192) } }
      \cup { SigCall(0, Long(8192)), SigCall(17, minix_SIG_IGN) }

Guest_Sig ==
    /\ pc = "quantum"
    /\ ncalls < MaxSigCalls
    /\ Guest_Trap(SigSetups)

NextSig ==
    \/ Main_Started
    \/ Main_Ready
    \/ Main_Running
    \/ Quantum_End
    \/ Guest_Sig
    \/ Host_Signal
    \/ MINIXCompat_SysCall_signal

SpecSig == Init /\ [][NextSig]_vars

\* The signal number and the handler a signal call names, as the guest
\* wrote them in the message.
Call_sig     == S16(Get16(Trap_message, off_i1))
Call_handler == GetLong(Trap_message, off_p2)

\* C15: for every signal number 1..16 and every sequence of signal(sig, h)
\* calls, with h any value (DFL, IGN and ERR included) and sig any signal
\* (those the host refuses to rebind included), the call returns in D0 the
\* handler recorded for sig by the previous signal call for sig, DFL if
\* there was none, and afterwards the table entry for sig is h.
C15_SignalReturnsPrevious ==
    [][ (Handled(minix_syscall_sig) /\ Call_sig \in 1..16) =>
            /\ pc' = "quantum"
            /\ reg'.D0 = minix_signal_handlers[Call_sig - 1]
            /\ minix_signal_handlers'[Call_sig - 1] = Call_handler
      ]_vars

\* The host handler a MINIX handler stands for.
Host_Equivalent(minix_handler) ==
    CASE minix_handler = minix_SIG_DFL -> "SIG_DFL"
      [] minix_handler = minix_SIG_IGN -> "SIG_IGN"
      [] minix_handler = minix_SIG_ERR -> "SIG_ERR"
      [] OTHER                         -> "MINIXCompat_Processes_SignalHandler_Other"

\* C16: signal(sig, h) hands the host SIG_DFL for h = DFL, SIG_IGN for
\* h = IGN, SIG_ERR for h = ERR and the handler that records the signal as
\* pending only for any other h; so a host signal that arrives while the
\* table entry of its signal is DFL takes the host's default action and is
\* not recorded.
C16_SentinelsMapToHost ==
    [][ /\ (Handled(minix_syscall_sig) /\ Call_sig \in 1..16) =>
                last'.arg[2] = Host_Equivalent(Call_handler)
        /\ \A i \in 1..16 :
            ( /\ minix_current_signal' # minix_current_signal
              /\ minix_current_signal' = MINIXCompat_Processes_HostSignalForMINIXSignal[i] )
                => minix_signal_handlers[i - 1] # minix_SIG_DFL
      ]_vars


----------------------------------------------------------------------------
(* The executable loader applied to one file each: a header, 16 bytes of   *)
(* combined text and data, and a relocation stream.                        *)

\* Relocation bytes after the initial offset in one stream, the terminator
\* not counted.
MaxRelocBytes == 2

\* The 16 bytes of text and data: the longwords at 4, 8 and 12 are relocatable;
\* 0xFFFFF800 plus the base passes 2^32.
LoadCodes ==
    { ToolCode(1),
      <<78, 113, 0, 2,  255, 255, 248, 0,  0, 0, 18, 52,  255, 255, 255, 255>> }

\* Sequences over S of length at most n.
RECURSIVE SeqsUpTo(_, _)
SeqsUpTo(S, n) ==
    IF n = 0 THEN { <<>> }
    ELSE LET shorter == SeqsUpTo(S, n - 1)
         IN  shorter \cup { <<b>> \o q : b \in S, q \in { r \in shorter : Len(r) = n - 1 } }

\* Well-formed streams: a non-zero initial offset, bytes 0x01 or even, 0x00
\* last; the initial offset 0; no stream, or less than an initial offset.
WellFormedStreams ==
    { BE32(o) \o q \o <<0>> : o \in {4, 8}, q \in SeqsUpTo({1, 2, 4}, MaxRelocBytes) }
        \cup { BE32(0), BE32(0) \o <<4, 0>>, <<>>, <<0, 0>> }

\* Streams with an odd byte other than 0x01, and streams that end before
\* their terminator.
OddStreams       == { Reloc_Odd, BE32(4) \o <<4, 5, 0>>, BE32(8) \o <<255>> }
TruncatedStreams == { Reloc_Truncated, BE32(4), BE32(8) \o <<1>> }

\* Headers: the accepted one, and one for each structural violation.
LoadHeaders == { "good", "magic", "flags", "no_entry", "total" }

\* The file with header kind, the text and data code and the stream reloc;
\* a_total is two clicks.
LoadFile(kind, code, reloc) ==
    ExecFile(IF kind = "magic" THEN minix_exec_magic_combined + 1 ELSE minix_exec_magic_combined,
             IF kind = "flags" THEN 0 ELSE minix_exec_flags,
             8, 8, 0,
             IF kind = "no_entry" THEN 1 ELSE minix_exec_no_entry,
             IF kind = "total" THEN 0 ELSE 2 * MINIX_CLICK_SIZE,
             0, code \o reloc)

LoadInputs ==
    { [kind |-> "good", code |-> c, reloc |-> r] :
        c \in LoadCodes, r \in WellFormedStreams \cup OddStreams \cup TruncatedStreams }
      \cup { [kind |-> k, code |-> ToolCode(1), reloc |-> Reloc_OK] : k \in LoadHeaders }

InitLoad ==
    /\ Constructed
    /\ \E in \in LoadInputs : calc = [fn |-> "Load", in |-> in, out |-> <<>>]

\* MINIXCompat_Executable_Load is called on the file.
Executable_Load ==
    /\ calc.fn = "Load"
    /\ calc' = [calc EXCEPT !.fn = "Loaded", !.out =
            MINIXCompat_Executable_Load(LoadFile(calc.in.kind, calc.in.code, calc.in.reloc))]
    /\ UNCHANGED progVars

NextLoad == Executable_Load

SpecLoad == InitLoad /\ [][NextLoad]_vars

\* The load of the file has returned.
Loaded == calc.fn = "Loaded"

\* The image as the file has it: text and data at 0, zero up to a_total.
FileImage(code) == Block(code, 2 * MINIX_CLICK_SIZE)

\* The offsets a stream records, by the format: the initial offset, and each
\* offset reached by an even byte; 0x01 adds 254 and records nothing.
RECURSIVE RecordedFrom(_, _, _)
RecordedFrom(reloc, pos, offset) ==
    IF pos > Len(reloc) \/ reloc[pos] = 0 THEN {}
    ELSE IF reloc[pos] = 1 THEN RecordedFrom(reloc, pos + 1, offset + 254)
    ELSE {offset + reloc[pos]} \cup RecordedFrom(reloc, pos + 1, offset + reloc[pos])

RecordedOffsets(reloc) ==
    IF Len(reloc) < 4 \/ Get32(reloc, 0) = 0 THEN {}
    ELSE {Get32(reloc, 0)} \cup RecordedFrom(reloc, 5, Get32(reloc, 0))

\* The image after the load has, at each recorded offset, the longword of
\* the file plus the base, and the file's bytes everywhere else.
Relocated_AsRecorded ==
    LET offsets == RecordedOffsets(calc.in.reloc)
        image   == FileImage(calc.in.code)
    IN  /\ calc.out.err = 0
        /\ Len(calc.out.buf) = Len(image)
        /\ \A o \in offsets :
                GetLong(calc.out.buf, o) =
                    Long_Add(GetLong(image, o), Long(MINIXCompat_Executable_Base))
        /\ \A i \in 1..Len(image) :
                (\A o \in offsets : i <= o \/ i > o + 4) => calc.out.buf[i] = image[i]

\* The recorded longwords lie in the image; no two of them share a byte.
Recorded_InImage ==
    \A o \in RecordedOffsets(calc.in.reloc) : o + 4 <= 2 * MINIX_CLICK_SIZE
Recorded_Apart ==
    \A o1, o2 \in RecordedOffsets(calc.in.reloc) : o1 < o2 => o1 + 4 <= o2

\* C17 as the code has it: for every image and every well-formed relocation
\* stream whose recorded longwords do not overlap, after the load the
\* big-endian long at every recorded offset is its value in the file plus
\* 0x1000 modulo 2^32, and every other byte of the image is the file's text
\* and data or zero; an initial offset of 0, or a missing one, patches
\* nothing.
C17_RelocatedLongsApart ==
    ( /\ Loaded
      /\ calc.in.kind = "good"
      /\ calc.in.reloc \in WellFormedStreams
      /\ Recorded_InImage
      /\ Recorded_Apart ) => Relocated_AsRecorded

\* The image 4E 71 00 02 FF FF F8 00 00 00 12 34 ... with the stream
\* 00 00 00 04 04 00 has been loaded: 0xFFFFF800 has become 0x00000800 and
\* 0x00001234 has become 0x00002234.
C17_Witness ==
    /\ Loaded
    /\ calc.in.kind = "good"
    /\ calc.in.reloc = Reloc_OK
    /\ calc.out.err = 0
    /\ SubSeq(calc.out.buf, 1, 16) =
            <<78, 113, 0, 2,  0, 0, 8, 0,  0, 0, 34, 52,  255, 255, 255, 255>>

\* C17 as stated: for every image and every well-formed relocation stream,
\* after the load the big-endian long at every recorded offset is its value
\* in the file plus 0x1000 modulo 2^32 and every other byte of the image is
\* the file's; an initial offset of 0, or a missing one, patches nothing.
C17_RelocatedLongs ==
    ( /\ Loaded
      /\ calc.in.kind = "good"
      /\ calc.in.reloc \in WellFormedStreams
      /\ Recorded_InImage ) => Relocated_AsRecorded

\* C18: every failing load returns a negative errno, never a positive
\* value: a wrong magic, flags other than 0x20, a non-zero no_entry, a zero
\* total and a relocation stream with an odd byte other than 0x01 return
\* -ENOEXEC; a relocation stream that ends before its 0x00 returns -EIO.
C18_FailedLoadIsNegativeErrno ==
    Loaded =>
        /\ calc.out.err <= 0
        /\ calc.in.kind # "good" => calc.out.err = -ENOEXEC
        /\ (calc.in.kind = "good" /\ calc.in.reloc \in OddStreams) => calc.out.err = -ENOEXEC
        /\ (calc.in.kind = "good" /\ calc.in.reloc \in TruncatedStreams) => calc.out.err = -EIO

\* ---------------------------------------------------------------------
\* Host paths and the working directory (MINIXCompat_Filesystem.c 173-261).
\* calc.in holds the environment of one run: the root DIR, the host's cwd
\* and the MINIXCOMPAT_PWD variable; calc.out holds MINIXCOMPAT_PWD,
\* MINIXCOMPAT_PWD_Host and the last call with its argument and result.

MaxPathCalls == 2

\* "/m" and "/m/", the root with and without a trailing slash.
PathRoots == { MINIXCOMPAT_DIR, MINIXCOMPAT_DIR \o <<47>> }

\* "/", "/a", "/m", "/m/x", "/m/x/a", "/m2/x"
HostCwds ==
    { <<47>>, <<47, 97>>, <<47, 109>>, <<47, 109, 47, 120>>,
      <<47, 109, 47, 120, 47, 97>>, <<47, 109, 50, 47, 120>> }

\* "", "/", "/x", "x", "x/a", ".."
GuestPaths ==
    { <<>>, <<47>>, <<47, 120>>, <<120>>, <<120, 47, 97>>, <<46, 46>> }

\* getenv("MINIXCOMPAT_PWD"): unset, or "/", "/x", "x".
PwdEnvs ==
    { [set |-> FALSE, value |-> <<>>] }
        \cup { [set |-> TRUE, value |-> v] : v \in { <<47>>, <<47, 120>>, <<120>> } }

Path_IsAbsolute(path) == Len(path) > 0 /\ path[1] = 47

\* strncmp(path, subpath, path_len) == 0 when path is no longer than subpath.
MINIXCompat_PathContains(path, subpath) ==
    IF Len(path) <= Len(subpath)
    THEN SubSeq(subpath, 1, Len(path)) = path
    ELSE FALSE

\* MINIXCOMPAT_PWD and MINIXCOMPAT_PWD_Host after SetWorkingDirectory(mwd).
MINIXCompat_Filesystem_SetWorkingDirectory(DIR, PWD_Host, mwd) ==
    [PWD      |-> mwd,
     PWD_Host |-> Filesystem_CopyHostPathForPath(DIR, PWD_Host, mwd)]

\* The argument CWD_Initialize passes to SetWorkingDirectory.
CWD_Initialize_mwd(DIR, cwd, env) ==
    IF env.set
    THEN env.value
    ELSE IF MINIXCompat_PathContains(DIR, cwd)
         THEN SubSeq(cwd, Len(DIR) + 1, Len(cwd))
         ELSE <<47>>

PathInputs ==
    [DIR : PathRoots, cwd : HostCwds, env : PwdEnvs]

InitPath ==
    /\ Constructed
    /\ \E i \in PathInputs : calc = [fn |-> "Path", in |-> i, out |-> <<>>]

\* MINIXCompat_CWD_Initialize, the first SetWorkingDirectory of the run.
\* MINIXCOMPAT_PWD_Host is still NULL with cached length 0: for an mwd that
\* is not absolute, strncat is handed the NULL base with a count of 0, which
\* is undefined; it either appends nothing or the run faults.
CWD_Initialize ==
    /\ calc.fn = "Path"
    /\ LET mwd == CWD_Initialize_mwd(calc.in.DIR, calc.in.cwd, calc.in.env)
           wd  == MINIXCompat_Filesystem_SetWorkingDirectory(calc.in.DIR, <<>>, mwd)
       IN  \E fault \in (IF Path_IsAbsolute(mwd) THEN {FALSE} ELSE {FALSE, TRUE}) :
               calc' = [calc EXCEPT
                          !.fn  = IF fault THEN "PathFault" ELSE "PathReady",
                          !.out = [PWD |-> wd.PWD, PWD_Host |-> wd.PWD_Host,
                                   last |-> "init", path |-> mwd,
                                   host_path |-> <<>>, old_PWD_Host |-> <<>>,
                                   calls |-> 0]]
    /\ UNCHANGED progVars

\* A later MINIXCompat_Filesystem_SetWorkingDirectory(mwd).
Path_SetWorkingDirectory ==
    /\ calc.fn = "PathReady"
    /\ calc.out.calls < MaxPathCalls
    /\ \E mwd \in GuestPaths :
           LET wd == MINIXCompat_Filesystem_SetWorkingDirectory(
                         calc.in.DIR, calc.out.PWD_Host, mwd)
           IN  calc' = [calc EXCEPT
                          !.out = [PWD |-> wd.PWD, PWD_Host |-> wd.PWD_Host,
                                   last |-> "chdir", path |-> mwd,
                                   host_path |-> <<>>,
                                   old_PWD_Host |-> calc.out.PWD_Host,
                                   calls |-> calc.out.calls + 1]]
    /\ UNCHANGED progVars

\* A call of MINIXCompat_Filesystem_CopyHostPathForPath(path).
Path_CopyHostPath ==
    /\ calc.fn = "PathReady"
    /\ calc.out.calls < MaxPathCalls
    /\ \E path \in GuestPaths :
           calc' = [calc EXCEPT
                      !.out.last = "convert",
                      !.out.path = path,
                      !.out.host_path =
                          Filesystem_CopyHostPathForPath(
                              calc.in.DIR, calc.out.PWD_Host, path),
                      !.out.old_PWD_Host = calc.out.PWD_Host,
                      !.out.calls = calc.out.calls + 1]
    /\ UNCHANGED progVars

NextPath ==
    \/ CWD_Initialize
    \/ Path_SetWorkingDirectory
    \/ Path_CopyHostPath

SpecPath == InitPath /\ [][NextPath]_vars

PathReady == calc.fn = "PathReady"

\* C19: the host path of a guest path that begins with "/" is the MINIX root
\* followed by the path; of any other path, the empty one included, it is
\* the host working directory, then "/", then the path; and after the
\* working directory is changed to an absolute guest path d the host working
\* directory is the MINIX root followed by d.
C19_HostPathForPath ==
    PathReady =>
        /\ (calc.out.last = "convert" /\ Path_IsAbsolute(calc.out.path)) =>
               calc.out.host_path = calc.in.DIR \o calc.out.path
        /\ (calc.out.last = "convert" /\ ~Path_IsAbsolute(calc.out.path)) =>
               calc.out.host_path = calc.out.PWD_Host \o <<47>> \o calc.out.path
        /\ (calc.out.last = "chdir" /\ Path_IsAbsolute(calc.out.path)) =>
               calc.out.PWD_Host = calc.in.DIR \o calc.out.path

\* An empty path has been converted in a working directory that an earlier
\* change to "/x" had set.
C19_Witness ==
    /\ PathReady
    /\ calc.out.last = "convert"
    /\ calc.out.path = <<>>
    /\ calc.out.PWD = <<47, 120>>
    /\ calc.out.PWD_Host = calc.in.DIR \o <<47, 120>>
    /\ calc.out.host_path = calc.in.DIR \o <<47, 120, 47>>

\* The host cwd is the root, or a directory below it.
Cwd_InRoot(DIR, cwd) ==
    /\ Len(DIR) <= Len(cwd)
    /\ SubSeq(cwd, 1, Len(DIR)) = DIR
    /\ \/ Len(cwd) = Len(DIR)
       \/ DIR[Len(DIR)] = 47
       \/ cwd[Len(DIR) + 1] = 47

\* C20: with MINIXCOMPAT_PWD unset, the initial guest working directory is
\* the host cwd without the MINIX root prefix exactly when the host cwd is
\* the root or a directory below it, and "/" otherwise (a cwd that only
\* shares the root as a string prefix gives "/"); it always begins with "/".
C20_InitialWorkingDirectory ==
    (calc.fn \in {"PathReady", "PathFault"} /\ calc.out.last = "init" /\ ~calc.in.env.set) =>
        /\ calc.out.PWD =
               IF Cwd_InRoot(calc.in.DIR, calc.in.cwd)
               THEN SubSeq(calc.in.cwd, Len(calc.in.DIR) + 1, Len(calc.in.cwd))
               ELSE <<47>>
        /\ Path_IsAbsolute(calc.out.PWD)

\* ---------------------------------------------------------------------
\* Inode translation as a function of the host inode
\* (MINIXCompat_Filesystem.c 383-413).  A host inode is four 16-bit words,
\* high first; a 32-bit ino_t is one whose two high words are 0, for which
\* both branches of the code add the same words.

InodeWords == {0, 1, 2, 32768, 65535}

HostInodes == { <<a, b, c, d>> : a \in InodeWords, b \in InodeWords,
                                 c \in InodeWords, d \in InodeWords }

InitInode ==
    /\ Constructed
    /\ \E host_inode \in HostInodes :
           calc = [fn |-> "Inode", in |-> host_inode, out |-> 0]

Inode_Translate ==
    /\ calc.fn = "Inode"
    /\ calc' = [calc EXCEPT !.fn  = "Translated",
                            !.out = MINIXCompat_File_MINIXInodeForHostInode(calc.in)]
    /\ UNCHANGED progVars

NextInode == Inode_Translate

SpecInode == InitInode /\ [][NextInode]_vars

\* C21: host inode 0 translates to guest inode 0; a host inode whose low 16
\* bits are not 0 translates to those bits; every host inode that is not 0
\* translates to a 16-bit guest inode that is not 0.
C21_InodeNonZero ==
    calc.fn = "Translated" =>
        /\ calc.in = <<0, 0, 0, 0>> => calc.out = 0
        /\ calc.in[4] # 0 => calc.out = calc.in[4]
        /\ calc.in # <<0, 0, 0, 0>> => calc.out \in 1..65535

\* ---------------------------------------------------------------------
\* Mode translation as a function of the host mode
\* (MINIXCompat_Filesystem.c 589-617).

\* The type field of a mode, mode & 0170000.
Mode_Type(mode) == BitAnd(mode, 61440)

\* The setuid, setgid, sticky and permission bits, mode & 07777.
Mode_Bits(mode) == BitAnd(mode, 4095)

ClaimedTypes == {S_IFREG, S_IFBLK, S_IFDIR, S_IFCHR, S_IFIFO}

\* The host's other file types: symbolic link 0120000 and socket 0140000.
HostOtherTypes == {40960, 49152}

\* Each single bit of 07777, and 0644, 0755, 04755, 07777, 0.
HostModeBits ==
    {0, 1, 2, 4, 8, 16, 32, 64, 128, 256, 512, 1024, 2048, 420, 493, 2541, 4095}

HostModes == { t + b : t \in ClaimedTypes \cup HostOtherTypes, b \in HostModeBits }

InitMode ==
    /\ Constructed
    /\ \E host_mode \in HostModes :
           calc = [fn |-> "Mode", in |-> host_mode, out |-> 0]

Mode_Translate ==
    /\ calc.fn = "Mode"
    /\ calc' = [calc EXCEPT !.fn  = "ModeTranslated",
                            !.out = MINIXCompat_File_MINIXStatModeForHostStatMode(calc.in)]
    /\ UNCHANGED progVars

NextMode == Mode_Translate

SpecMode == InitMode /\ [][NextMode]_vars

\* C22: for a host mode whose type is regular, block device, directory,
\* character device or FIFO, the type field of the guest mode is the guest
\* constant of that type, and the guest's setuid, setgid, sticky and nine
\* permission bits are the host's.
C22_ModeTypeAndBits ==
    (calc.fn = "ModeTranslated" /\ Mode_Type(calc.in) \in ClaimedTypes) =>
        /\ calc.out < 65536
        /\ Mode_Type(calc.out) = Mode_Type(calc.in)
        /\ Mode_Bits(calc.out) = Mode_Bits(calc.in)

\* A setuid block device, mode 0064755, has been translated.
C22_Witness ==
    /\ calc.fn = "ModeTranslated"
    /\ calc.in = S_IFBLK + 2541
    /\ calc.out = 24576 + 2541

\* ---------------------------------------------------------------------
\* Host signals against the run loop: the guest installs handlers and
\* exits, signals arrive at any point (part_007 322-336, MINIXCompat.c 72-82).

MaxPendCalls == 3

PendSetups ==
    { SigCall(sig, handler) :
        sig \in {2, 15}, handler \in { minix_SIG_DFL, minix_SIG_IGN, Long(8192) } }
      \cup { Setup(minix_syscall_func_both, minix_task_mm, MsgAddr,
                   NoPointers(minix_syscall_exit, 0), <<>>, <<>>) }

Guest_Pend ==
    /\ pc = "quantum"
    /\ ncalls < MaxPendCalls
    /\ Guest_Trap(PendSetups)

NextPend ==
    \/ Main_Started
    \/ Main_Ready
    \/ Main_Running
    \/ Main_Finished
    \/ Quantum_End
    \/ Guest_Pend
    \/ Host_Signal
    \/ MINIXCompat_SysCall_signal
    \/ MINIXCompat_SysCall_exit

SpecPend == Init /\ [][NextPend]_vars

\* A step in which a handler of the emulator records an arriving signal.
Signal_Recorded ==
    /\ minix_current_signal' # minix_current_signal
    /\ minix_current_signal' \in HostSignals

\* A step in which the pending signal is taken out of the slot.
Signal_Inspected ==
    /\ minix_current_signal # "none"
    /\ minix_current_signal' = "none"

\* C23: a host signal that arrives, at any point, changes the pending-signal
\* slot only (a later one replaces an earlier one that is still pending) and
\* never guest RAM, the registers, the FD table, the process table or the
\* execution state; the pending signal is looked at only when a quantum
\* ends, and only if the state is Running then.
C23_SignalOnlyPends ==
    [][ /\ Signal_Recorded =>
              UNCHANGED <<pc, execVars, MINIXCompat_RAM, reg, minix_current_break, fdVars,
                          MINIXCompat_ProcessTable, MINIXCompat_ProcessTable_Size,
                          minix_self_pid, minix_self_ppid, minix_next_pid,
                          minix_signal_handlers, host_signal_handlers, host, last, ncalls>>
        /\ pc' = "killed" =>
              UNCHANGED <<execVars, MINIXCompat_RAM, reg, fdVars, MINIXCompat_ProcessTable,
                          MINIXCompat_ProcessTable_Size, minix_current_signal>>
        /\ Signal_Inspected =>
              (pc = "quantum" /\ pc' = "loop" /\ MINIXCompat_State = "Running")
        /\ (pc = "quantum" /\ pc' = "loop" /\ MINIXCompat_State # "Running") =>
              UNCHANGED minix_current_signal
      ]_vars

\* The run is over with a signal still pending: it arrived after the exit
\* and was not looked at.
C23_Witness ==
    /\ pc = "exited"
    /\ MINIXCompat_State = "Finished"
    /\ minix_current_signal = "SIGTERM"
    /\ host_signal_handlers["SIGINT"] = "MINIXCompat_Processes_SignalHandler_Other"

\* ---------------------------------------------------------------------
\* close (MINIXCompat_Filesystem.c 471-490 and 297-310).

\* A close names a slot of the table that is open.
Close_OfOpenSlot ==
    /\ Dispatched(minix_syscall_close)
    /\ Call_fd \in 0..(MINIXCompat_fd_count - 1)
    /\ ~Slot_Empty(Call_fd)

\* C24: close of an open guest descriptor leaves that slot empty (host and
\* guest descriptor -1, no directory cache, type unchecked) whether the
\* host's close succeeded or failed, is answered with 0 if it succeeded and
\* with the negative MINIX errno if it failed, and leaves every other slot
\* of the table as it was.
C24_CloseClearsSlot ==
    [][ Close_OfOpenSlot =>
            /\ pc' = "quantum"
            /\ MINIXCompat_fd_table'[Call_fd] = ClearedEntry
            /\ \A i \in 0..(MINIXCompat_fd_count - 1) :
                   i # Call_fd => MINIXCompat_fd_table'[i] = MINIXCompat_fd_table[i]
            /\ S16(Get16(last'.reply, off_m_type)) =
                   IF host_faults' = host_faults THEN 0 ELSE -minix_EIO
      ]_vars

\* The host failed the close of slot 3 while slot 4 was open: slot 3 is
\* empty, slot 4 is still open, the answer is -EIO.
C24_Witness ==
    /\ pc = "quantum"
    /\ last.op = "close"
    /\ last.arg = 3
    /\ S16(Get16(last.reply, off_m_type)) = -minix_EIO
    /\ MINIXCompat_fd_table[3] = ClearedEntry
    /\ MINIXCompat_fd_table[4].host_fd # -1

\* ---------------------------------------------------------------------
\* exece and the reply (part_001 1171-1185 and 511-515, part_007 579-587).

\* An exece sent as send-and-receive succeeds: the state becomes Ready.
Exec_Both_Succeeds ==
    /\ Handled(minix_syscall_exece)
    /\ Trap_func = minix_syscall_func_both
    /\ MINIXCompat_State = "Running"
    /\ MINIXCompat_State' = "Ready"

\* C25: after a successful exece sent as send-and-receive no reply is in
\* guest RAM: RAM holds the new image at the executable base and the rebased
\* stack snapshot at the stack base, and the bytes at the caller's message
\* address are as they were.
C25_ExecWritesNoReply ==
    [][ Exec_Both_Succeeds =>
            /\ MINIXCompat_RAM'.msg = MINIXCompat_RAM.msg
            /\ MINIXCompat_RAM'.path = MINIXCompat_RAM.path
            /\ MINIXCompat_RAM'.snap = MINIXCompat_RAM.snap
            /\ MINIXCompat_RAM'.buf = MINIXCompat_RAM.buf
      ]_vars

\* ---------------------------------------------------------------------
\* fork when the host's fork fails (part_007 184-205).

\* A fork step in which the host's fork() returned -1.
Fork_Fails == Handled(minix_syscall_fork) /\ host_faults' = host_faults + 1

\* C26: when the host's fork fails, fork is answered with a negative MINIX
\* errno, every slot of the process table keeps its host and guest process
\* IDs, and the next guest process ID is the one it was before the call; so
\* the fork that succeeds next returns the ID the failed one had reserved.
C26_FailedForkRollsBack ==
    [][ /\ Fork_Fails =>
              /\ pc' = "quantum"
              /\ S16(Get16(last'.reply, off_m_type)) =
                     -MINIXCompat_Errors_MINIXErrorForHostError(EAGAIN)
              /\ S16(Get16(last'.reply, off_m_type)) < 0
              /\ \A i \in 0..(MINIXCompat_ProcessTable_Size - 1) :
                     MINIXCompat_ProcessTable'[i] = MINIXCompat_ProcessTable[i]
              /\ minix_next_pid' = minix_next_pid
              /\ host' = host
        /\ (Fork_Succeeds /\ host'.pid = host.pid) => Fork_NewPid = minix_next_pid
      ]_vars

\* The first fork failed and the second one succeeded: the parent was told
\* process ID 8, the ID the failed fork had reserved and given back.
C26_Witness ==
    /\ pc = "quantum"
    /\ ncalls = 2
    /\ host_faults = 1
    /\ host.pid = HostSelf.pid
    /\ last.op = "fork"
    /\ S16(Get16(last.reply, off_m_type)) = 8
    /\ MINIXCompat_ProcessTable[2].minix_pid = 8
    /\ minix_next_pid = 9

\* ---------------------------------------------------------------------
\* The directory cache as a function of the host's entries
\* (MINIXCompat_Filesystem.c 739-800).  The cache is a sequence of
\* minix_dirent_t, 16 bytes each.

MaxDirEntries == 66

\* The n entries readdir(3) yields: inodes 2, 3, ... and one-letter names.
HostDirOf(n) ==
    [i \in 1..n |-> [d_ino |-> <<0, 0, 0, i + 1>>, d_name |-> <<97 + (i % 26)>>]]

\* calloc(32, sizeof(minix_dirent_t))
Dircache_Calloc == [i \in 1..32 |-> Zeros(sizeof_minix_dirent)]

\* realloc to 32 more entries, then memset(&dircache[dircache_count], 0, 32):
\* 32 bytes, the first two of the new entries, are zeroed; the other thirty
\* are memory the program has not written, every byte of it junk.
Dircache_Grow(dircache, junk) ==
    dircache \o [i \in 1..32 |->
                    IF i * sizeof_minix_dirent <= 32
                    THEN Zeros(sizeof_minix_dirent)
                    ELSE [j \in 1..sizeof_minix_dirent |-> junk]]

\* The loop over readdir, 32 entries at a time, from entry 32 * b on: the
\* cache is full when the first of them arrives (entry_count >= dircache_count,
\* except for the first 32), so it grows once, and then they are stored.
RECURSIVE Precache_From(_, _, _, _)
Precache_From(host_entries, b, dircache, junk) ==
    IF 32 * b >= Len(host_entries)
    THEN dircache
    ELSE LET grown == IF 32 * b >= Len(dircache)
                      THEN Dircache_Grow(dircache, junk) ELSE dircache
         IN  Precache_From(host_entries, b + 1,
                 [i \in 1..Len(grown) |->
                     IF i > 32 * b /\ i <= 32 * (b + 1) /\ i <= Len(host_entries)
                     THEN DirentBytes(host_entries[i]) ELSE grown[i]],
                 junk)

\* dir_entries and dir_count as a successful MINIXCompat_Dir_Precache leaves them.
Dir_Precache_Cache(host_entries, junk) ==
    LET dircache == Precache_From(host_entries, 0, Dircache_Calloc, junk)
    IN  [dir_entries |-> dircache, dir_count |-> Len(dircache)]

InitDir ==
    /\ Constructed
    /\ \E n \in 0..MaxDirEntries, junk \in JunkBytes :
           calc = [fn |-> "Dir", in |-> [n |-> n, junk |-> junk],
                   out |-> [dir_entries |-> <<>>, dir_count |-> -1]]

Dir_Open ==
    /\ calc.fn = "Dir"
    /\ calc' = [calc EXCEPT !.fn  = "Cached",
                            !.out = Dir_Precache_Cache(HostDirOf(calc.in.n), calc.in.junk)]
    /\ UNCHANGED progVars

NextDir == Dir_Open

SpecDir == InitDir /\ [][NextDir]_vars

\* C27: after a directory with n host entries has been opened, the cached
\* entry count is a multiple of 32, at least 32 and at least n; entries
\* 0..n-1 hold the host's entries in order; every cached entry from n on has
\* inode 0 and an all-NUL name, also when the cache has grown.
C27_DirCachePadded ==
    calc.fn = "Cached" =>
        /\ calc.out.dir_count = Len(calc.out.dir_entries)
        /\ calc.out.dir_count % 32 = 0
        /\ calc.out.dir_count >= 32
        /\ calc.out.dir_count >= calc.in.n
        /\ \A i \in 1..calc.in.n :
               calc.out.dir_entries[i] = DirentBytes(HostDirOf(calc.in.n)[i])
        /\ \A i \in (calc.in.n + 1)..calc.out.dir_count :
               calc.out.dir_entries[i] = Zeros(sizeof_minix_dirent)

\* ---------------------------------------------------------------------
\* The cursor of an open directory under reads and seeks
\* (MINIXCompat_Filesystem.c 855-912).  calc.out.entry is the slot of the
\* directory, opened with calc.in.n host entries.

MaxCursorCalls == 3

\* host_buf_size of a read that passes the assertions of MINIXCompat_File_Read.
DirReadSizes == {1, 16, 512, 1024, 32767}

DirSeekOffsets ==
    {0, 1, -1, 16, -16, 511, 512, 1023, 1024, -512, 2147483647, -2147483647}

DirWhences == {minix_SEEK_SET, minix_SEEK_CUR, minix_SEEK_END}

InitCursor ==
    /\ Constructed
    /\ \E n \in {3, 40}, junk \in JunkBytes :
           calc = [fn |-> "Cursor", in |-> [n |-> n, junk |-> junk],
                   out |-> [entry |-> ClearedEntry, last |-> "none", result |-> 0,
                            old_offset |-> 0, arg |-> 0, whence |-> 0, calls |-> 0]]

\* The directory is opened in slot 3: MINIXCompat_Dir_Precache fills the slot.
Cursor_Open ==
    /\ calc.fn = "Cursor"
    /\ LET c == Dir_Precache_Cache(HostDirOf(calc.in.n), calc.in.junk)
       IN  calc' = [calc EXCEPT
                      !.fn = "CursorOpen",
                      !.out.entry = [host_fd |-> 3, minix_fd |-> 3, f_type |-> "f_directory",
                                     dir_entries |-> c.dir_entries,
                                     dir_count |-> c.dir_count, dir_offset |-> 0],
                      !.out.last = "open"]
    /\ UNCHANGED progVars

Cursor_Table == [i \in {3} |-> calc.out.entry]

Cursor_Read ==
    /\ calc.fn = "CursorOpen"
    /\ calc.out.calls < MaxCursorCalls
    /\ \E host_buf_size \in DirReadSizes :
           LET r == MINIXCompat_Dir_Read(Cursor_Table, 3, host_buf_size)
           IN  calc' = [calc EXCEPT
                          !.out = [entry |-> r.table[3], last |-> "read",
                                   result |-> r.result,
                                   old_offset |-> calc.out.entry.dir_offset,
                                   arg |-> host_buf_size, whence |-> 0,
                                   calls |-> calc.out.calls + 1]]
    /\ UNCHANGED progVars

Cursor_Seek ==
    /\ calc.fn = "CursorOpen"
    /\ calc.out.calls < MaxCursorCalls
    /\ \E minix_offset \in DirSeekOffsets, minix_whence \in DirWhences :
           LET k == MINIXCompat_Dir_Seek(Cursor_Table, 3, minix_offset, minix_whence)
           IN  calc' = [calc EXCEPT
                          !.out = [entry |-> k.table[3], last |-> "seek",
                                   result |-> k.result,
                                   old_offset |-> calc.out.entry.dir_offset,
                                   arg |-> minix_offset, whence |-> minix_whence,
                                   calls |-> calc.out.calls + 1]]
    /\ UNCHANGED progVars

NextCursor ==
    \/ Cursor_Open
    \/ Cursor_Read
    \/ Cursor_Seek

SpecCursor == InitCursor /\ [][NextCursor]_vars

\* 16 * (cached entry count) of the open directory.
Cursor_Limit == sizeof_minix_dirent * calc.out.entry.dir_count

\* The offset a seek starts from.
Seek_Base ==
    CASE calc.out.whence = minix_SEEK_SET -> 0
      [] calc.out.whence = minix_SEEK_CUR -> calc.out.old_offset
      [] calc.out.whence = minix_SEEK_END -> Cursor_Limit - 1

\* The seek's target, base + offset, is in [0, 16 * count - 1].
Seek_InRange ==
    /\ calc.out.arg >= 0 - Seek_Base
    /\ calc.out.arg <= (Cursor_Limit - 1) - Seek_Base

\* C28: after any sequence of reads and seeks on an open directory its
\* cursor c satisfies 0 <= c <= 16 * count; a seek moves the cursor to
\* base + offset if that is in [0, 16 * count - 1] (base 0 for SET, the
\* cursor for CUR, 16 * count - 1 for END) and otherwise returns -EINVAL and
\* leaves the cursor; a read that succeeds copies bytes inside the cache only.
C28_DirCursorInBounds ==
    calc.fn = "CursorOpen" =>
        /\ calc.out.entry.dir_offset >= 0
        /\ calc.out.entry.dir_offset <= Cursor_Limit
        /\ calc.out.last = "seek" =>
               IF Seek_InRange
               THEN /\ calc.out.result = 0
                    /\ calc.out.entry.dir_offset = Seek_Base + calc.out.arg
               ELSE /\ calc.out.result = -minix_EINVAL
                    /\ calc.out.entry.dir_offset = calc.out.old_offset
        /\ (calc.out.last = "read" /\ calc.out.entry.dir_offset # calc.out.old_offset) =>
               /\ calc.out.result = calc.out.arg
               /\ calc.out.old_offset >= 0
               /\ calc.out.old_offset + calc.out.arg <= Cursor_Limit
               /\ calc.out.entry.dir_offset = calc.out.old_offset + calc.out.arg

\* In a 64-entry cache the cursor was moved to the last byte, 1023, and a
\* read of one byte has brought it to 1024.
C28_Witness ==
    /\ calc.fn = "CursorOpen"
    /\ calc.out.entry.dir_count = 64
    /\ calc.out.last = "read"
    /\ calc.out.old_offset = 1023
    /\ calc.out.result = 1
    /\ calc.out.entry.dir_offset = 1024

\* ---------------------------------------------------------------------
\* lseek on a regular file as a function of the file's length, its position,
\* the offset and the whence (MINIXCompat_Filesystem.c 547-572,
\* part_001 927-955).

FileLengths == {0, 2, 32768, 70000}

SeekOffsets == {-2, -1, 0, 1, 16, 32767, 32768, 65536, 100000}

InitSeek ==
    /\ Constructed
    /\ \E length \in FileLengths, pos \in {0, 2, 32768}, minix_offset \in SeekOffsets,
          minix_whence \in {minix_SEEK_SET, minix_SEEK_CUR, minix_SEEK_END} :
           /\ pos <= length
           /\ calc = [fn |-> "Seek",
                      in |-> [length |-> length, pos |-> pos,
                              offset |-> minix_offset, whence |-> minix_whence],
                      out |-> 0]

\* The file branch of MINIXCompat_File_Seek and the reply, *out_result and
\* D0 that MINIXCompat_SysCall_lseek and the trap callback make of it.
Seek_Report ==
    /\ calc.fn = "Seek"
    /\ \E seek_result \in { HostSeek_File(calc.in.length, calc.in.offset,
                                          calc.in.whence, calc.in.pos) } :
       \E k \in { File_Seek_Host(MINIXCompat_fd_table, seek_result) } :
           calc' = [calc EXCEPT
                      !.fn  = "Sought",
                      !.out = [seek_result |-> seek_result,
                               message |-> lseek_Reply(k.result, LongOfInt32(calc.in.offset)),
                               D0 |-> Trap_D0(minix_syscall_result_success,
                                              lseek_Out(k.result,
                                                        LongOfInt32(calc.in.offset)))]]
    /\ UNCHANGED progVars

NextSeek == Seek_Report

SpecSeek == InitSeek /\ [][NextSeek]_vars

\* C29: after a successful lseek on a regular file, m2_l1 of the reply and
\* D0 both hold the file's resulting absolute position.
C29_SeekReportsPosition ==
    (calc.fn = "Sought" /\ calc.out.seek_result >= 0) =>
        /\ GetLong(calc.out.message, off_p1) = LongOfInt32(calc.out.seek_result)
        /\ calc.out.D0 = LongOfInt32(calc.out.seek_result)

\* ---------------------------------------------------------------------
\* The break across exece (part_001 856-868, part_007 551-588).

\* An exece succeeds: the new image is loaded and the state becomes Ready.
Exec_Succeeds ==
    /\ Handled(minix_syscall_exece)
    /\ MINIXCompat_State = "Running"
    /\ MINIXCompat_State' = "Ready"

\* C30: a successful exece leaves the recorded break as it was, so every
\* address below the break of the previous program is still refused by the
\* test brk makes for the new program; and a brk below the recorded break is
\* answered with -ENOMEM and the pointer 0xFFFFFFFF, the break staying.
C30_BreakSurvivesExec ==
    [][ /\ Exec_Succeeds =>
              /\ minix_current_break' = minix_current_break
              /\ \A a \in BrkAddrs :
                     Long_Less(a, minix_current_break) =>
                         ~brk_Allowed(a, minix_current_break')
        /\ (Dispatched(minix_syscall_break) /\ Long_Less(Brk_Request, minix_current_break)) =>
              /\ minix_current_break' = minix_current_break
              /\ S16(Get16(last'.reply, off_m_type)) = -12
              /\ GetLong(last'.reply, off_p3) = Long_Max
      ]_vars

\* An exece has just succeeded while the break is 0x3000: the new program is
\* ready to start and brk(0x2500) would be refused.
C30_Witness ==
    /\ last.op = "exece"
    /\ last.arg = 0
    /\ MINIXCompat_State = "Ready"
    /\ state_change = <<"Running", "Ready">>
    /\ minix_current_break = Long(12288)
    /\ ~brk_Allowed(Long(9472), minix_current_break)

====
